---- MODULE Spec2Model ----
(***************************************************************************)
(* NFSe Painel: the batch run (_parse_all), the panel's row state          *)
(* (all_rows / view_rows) with its generate-installments and editor        *)
(* handlers, the installment/accumulator rules of services/parcelas, the   *)
(* enumerator of dataio/loaders, the currency normalizer, the ISS split of *)
(* services/dominio_nfse, export_final of services/dominio_export, the     *)
(* structured log of utils/logs with the panel's login handler, the date   *)
(* fields of the installment dialog and the editor, the station lookup of  *)
(* ui/login_baixa_integrada, the pool registry of infra/oracle and the     *)
(* company cache of services/empresa_service.                              *)
(*                                                                         *)
(* Text is modelled as a sequence of one-character strings, so that the    *)
(* conversions of the program (strip, lower, digit filter, date parsing    *)
(* and formatting, BRL parsing) are computed character by character.       *)
(***************************************************************************)
EXTENDS Integers, Sequences, FiniteSets, TLC

-----------------------------------------------------------------------------
(* Text helpers (Python str operations used by the code)                   *)

DigitChars == <<"0", "1", "2", "3", "4", "5", "6", "7", "8", "9">>

Digits == {DigitChars[i] : i \in 1..10}

DigitVal(c) == CHOOSE v \in 0..9 : DigitChars[v + 1] = c

DigitChar(v) == DigitChars[v + 1]

\* str.strip(): whitespace removed from both ends
RECURSIVE LStrip(_)
LStrip(s) == IF s # <<>> /\ Head(s) = " " THEN LStrip(Tail(s)) ELSE s

RECURSIVE RStrip(_)
RStrip(s) == IF s # <<>> /\ s[Len(s)] = " " THEN RStrip(SubSeq(s, 1, Len(s) - 1)) ELSE s

Strip(s) == RStrip(LStrip(s))

\* str.lower() on the letters that occur in the model's texts
LowerChar(c) ==
    CASE c = "A" -> "a" [] c = "C" -> "c" [] c = "D" -> "d" [] c = "E" -> "e"
      [] c = "L" -> "l" [] c = "M" -> "m" [] c = "N" -> "n" [] c = "O" -> "o"
      [] c = "R" -> "r" [] c = "S" -> "s" [] c = "T" -> "t" [] c = "U" -> "u"
      [] c = "B" -> "b" [] c = "H" -> "h" [] c = "I" -> "i" [] c = "P" -> "p"
      [] c = "Q" -> "q" [] c = "V" -> "v" [] c = "W" -> "w" [] c = "Y" -> "y"
      [] OTHER -> c

Lower(s) == [i \in 1..Len(s) |-> LowerChar(s[i])]

Contains(s, c) == \E i \in 1..Len(s) : s[i] = c

\* Python slice s[a:b] with 0-based a, b clipped to the length
Slice(s, a, b) ==
    LET hi == IF b > Len(s) THEN Len(s) ELSE b
    IN  IF a >= hi THEN <<>> ELSE SubSeq(s, a + 1, hi)

\* str.replace for a single character, new being a text
RECURSIVE ReplaceChar(_, _, _)
ReplaceChar(s, old, new) ==
    IF s = <<>> THEN <<>>
    ELSE (IF Head(s) = old THEN new ELSE <<Head(s)>>) \o ReplaceChar(Tail(s), old, new)

\* q in hay (substring test)
IsSubstring(q, hay) ==
    \E i \in 0..(Len(hay) - Len(q)) : Slice(hay, i, i + Len(q)) = q

\* the decimal value of a text of digits
RECURSIVE DigitsValue(_)
DigitsValue(s) ==
    IF s = <<>> THEN 0
    ELSE 10 * DigitsValue(SubSeq(s, 1, Len(s) - 1)) + DigitVal(s[Len(s)])

AllDigits(s) == \A i \in 1..Len(s) : s[i] \in Digits

\* f"{n:02d}" and f"{n:04d}" for 0 <= n <= 9999
Pad2(n) == IF n < 100 THEN <<DigitChar(n \div 10), DigitChar(n % 10)>>
           ELSE IF n < 1000 THEN <<DigitChar(n \div 100), DigitChar((n \div 10) % 10), DigitChar(n % 10)>>
           ELSE <<DigitChar(n \div 1000), DigitChar((n \div 100) % 10), DigitChar((n \div 10) % 10), DigitChar(n % 10)>>

Pad4(n) == <<DigitChar(n \div 1000), DigitChar((n \div 100) % 10), DigitChar((n \div 10) % 10), DigitChar(n % 10)>>

\* the value None of an Optional result
None == [none |-> TRUE]

\* int(s) of Python for a text over digits, sign and blanks: blanks are
\* stripped, one leading sign is accepted, the rest must be digits
SignedInt(negative, body) ==
    IF body = <<>> \/ ~AllDigits(body) THEN None
    ELSE [v |-> IF negative THEN 0 - DigitsValue(body) ELSE DigitsValue(body)]

PyIntStripped(t) ==
    IF t # <<>> /\ Head(t) \in {"+", "-"} THEN SignedInt(Head(t) = "-", Tail(t))
    ELSE SignedInt(FALSE, t)

PyInt(s) == PyIntStripped(Strip(s))

-----------------------------------------------------------------------------
(* services/parcelas.py: dates                                             *)

IsLeap(y) == (y % 4 = 0 /\ y % 100 # 0) \/ y % 400 = 0

DaysInMonth(y, m) ==
    IF m \in {4, 6, 9, 11} THEN 30
    ELSE IF m = 2 THEN (IF IsLeap(y) THEN 29 ELSE 28)
    ELSE 31

\* datetime.date(y, m, d) raises ValueError outside these ranges
ValidDate(y, m, d) ==
    /\ 1 <= y /\ y <= 9999
    /\ 1 <= m /\ m <= 12
    /\ 1 <= d /\ d <= DaysInMonth(y, m)

format_dd_mm_aaaa(d) == Pad2(d.day) \o <<"-">> \o Pad2(d.month) \o <<"-">> \o Pad4(d.year)

\* date(yy, mm, dd) inside the try: a ValueError of int() or date() gives None
DateOf(dd, mm, yy) ==
    IF dd = None \/ mm = None \/ yy = None THEN None
    ELSE IF ~ValidDate(yy.v, mm.v, dd.v) THEN None
    ELSE [day |-> dd.v, month |-> mm.v, year |-> yy.v]

\* parse_dd_mm_aaaa after s = (s or "").strip()
ParseStripped(s) ==
    IF Len(s) # 10 \/ s[3] # "-" \/ s[6] # "-" THEN None
    ELSE DateOf(PyInt(Slice(s, 0, 2)), PyInt(Slice(s, 3, 5)), PyInt(Slice(s, 6, 10)))

parse_dd_mm_aaaa(s0) == ParseStripped(Strip(s0))

-----------------------------------------------------------------------------
(* panel.py: text utilities                                                *)

_digits_only(s) == SelectSeq(s, LAMBDA c : c \in Digits)

\* _mask_date_typing after d = _digits_only(raw)[:8]
MaskDigits(d) ==
    IF Len(d) <= 2 THEN d
    ELSE IF Len(d) <= 4 THEN Slice(d, 0, 2) \o <<"/">> \o Slice(d, 2, 4)
    ELSE Slice(d, 0, 2) \o <<"/">> \o Slice(d, 2, 4) \o <<"/">> \o Slice(d, 4, 8)

_mask_date_typing(raw) == MaskDigits(Slice(_digits_only(raw), 0, 8))

\* Decimal(t) for a text over digits, ".", sign and blanks: the value is
\* num / 10^scale; any other text raises InvalidOperation (ok = FALSE)
CountChar(s, c) == Cardinality({i \in 1..Len(s) : s[i] = c})

\* the position of the first c of s, Len(s) + 1 without one
FirstChar(s, c) ==
    IF Contains(s, c)
    THEN CHOOSE i \in 1..Len(s) : s[i] = c /\ \A j \in 1..(i - 1) : s[j] # c
    ELSE Len(s) + 1

DecimalFrom(negative, ip, fp, ndots) ==
    IF ndots > 1 \/ ~AllDigits(ip) \/ ~AllDigits(fp) \/ Len(ip) + Len(fp) = 0
    THEN [ok |-> FALSE, num |-> 0, scale |-> 0]
    ELSE [ok |-> TRUE,
          num |-> IF negative THEN 0 - DigitsValue(ip \o fp) ELSE DigitsValue(ip \o fp),
          scale |-> Len(fp)]

DecimalAt(negative, body, dot) ==
    DecimalFrom(negative, SubSeq(body, 1, dot - 1), SubSeq(body, dot + 1, Len(body)),
                CountChar(body, "."))

DecimalStripped(t) ==
    IF t # <<>> /\ Head(t) \in {"+", "-"}
    THEN DecimalAt(Head(t) = "-", Tail(t), FirstChar(Tail(t), "."))
    ELSE DecimalAt(FALSE, t, FirstChar(t, "."))

DecimalOf(t0) == DecimalStripped(Strip(t0))

\* the replace calls of _brl_to_decimal on the stripped text
BrlNormalize(t) ==
    IF Contains(t, ",") /\ Contains(t, ".")
    THEN ReplaceChar(ReplaceChar(t, ".", <<>>), ",", <<".">>)
    ELSE ReplaceChar(t, ",", <<".">>)

\* except Exception: return Decimal("0")
DecimalOrZero(d) ==
    IF d.ok THEN [num |-> d.num, scale |-> d.scale] ELSE [num |-> 0, scale |-> 0]

_brl_to_decimal(s) ==
    IF Strip(s) = <<>> THEN [num |-> 0, scale |-> 0]
    ELSE DecimalOrZero(DecimalOf(BrlNormalize(Strip(s))))

-----------------------------------------------------------------------------
(* Texts that occur in rows and inputs                                     *)

T_410 == <<"4", "1", "0">>

T_411 == <<"4", "1", "1">>

T_424 == <<"4", "2", "4">>

T_425 == <<"4", "2", "5">>

T_999 == <<"9", "9", "9">>

T_zero == <<"0", ",", "0", "0">>

T_5 == <<"5", ",", "0", "0">>

T_100 == <<"1", "0", "0", ",", "0", "0">>

T_40 == <<"4", "0", ",", "0", "0">>

T_Normal == <<"N", "o", "r", "m", "a", "l">>

T_Cancelada == <<"C", "a", "n", "c", "e", "l", "a", "d", "a">>

T_cancelada == <<"c", "a", "n", "c", "e", "l", "a", "d", "a">>

T_emissao == <<"0", "1", "/", "0", "9", "/", "2", "0", "2", "5">>

\* due dates: dd-mm-aaaa, dd/mm/aaaa, bare digits, a day that does not exist
D_dash == <<"3", "0", "-", "0", "9", "-", "2", "0", "2", "5">>

D_slash == <<"3", "0", "/", "0", "9", "/", "2", "0", "2", "5">>

D_digits == <<"3", "0", "0", "9", "2", "0", "2", "5">>

D_nocal == <<"3", "1", "-", "0", "2", "-", "2", "0", "2", "5">>

D_blank == <<" ", "3", "0", "-", "0", "9", "-", "2", "0", "2", "5">>

AccCodes == {T_410, T_411, T_424, T_425}

-----------------------------------------------------------------------------
(* services/parcelas.py: rules over rows.  A list of dicts is a sequence   *)
(* of row identities into a heap h (identity -> dict), so that two lists   *)
(* holding the same dict share its mutations.  PARCELAS = <<>> stands for  *)
(* a missing key, None and the empty list, which every reader treats alike. *)

_is_cancelada(row) == Lower(Strip(row.STATUS)) = T_cancelada

\* AjustarLinha stepping to the next code instead of mapping 410 and 424 only
AjustarLinhaNextCode(r) ==
    LET acc == Strip(r.ACUMULADOR)
    IN  IF _is_cancelada(r) THEN [row |-> r, changed |-> 0]
        ELSE IF acc = T_410 THEN [row |-> [r EXCEPT !.ACUMULADOR = T_411], changed |-> 1]
        ELSE IF acc = T_411 THEN [row |-> [r EXCEPT !.ACUMULADOR = <<"4", "1", "2">>], changed |-> 1]
        ELSE IF acc = T_424 THEN [row |-> [r EXCEPT !.ACUMULADOR = T_425], changed |-> 1]
        ELSE IF acc = T_425 THEN [row |-> [r EXCEPT !.ACUMULADOR = <<"4", "2", "6">>], changed |-> 1]
        ELSE IF acc = <<>>
             THEN [row |-> [r EXCEPT !.ACUMULADOR = IF r.ISS_RET # T_zero THEN T_425 ELSE T_411],
                   changed |-> 1]
        ELSE [row |-> r, changed |-> 0]

\* the body of the loop of ajustar_acumuladores for one row
AjustarLinha(r) ==
    LET acc == Strip(r.ACUMULADOR)
    IN  IF _is_cancelada(r) THEN [row |-> r, changed |-> 0]
        ELSE IF acc = T_410 THEN [row |-> [r EXCEPT !.ACUMULADOR = T_411], changed |-> 1]
        ELSE IF acc = T_424 THEN [row |-> [r EXCEPT !.ACUMULADOR = T_425], changed |-> 1]
        ELSE IF acc = <<>>
             THEN [row |-> [r EXCEPT !.ACUMULADOR = IF r.ISS_RET # T_zero THEN T_425 ELSE T_411],
                   changed |-> 1]
        ELSE [row |-> r, changed |-> 0]

RECURSIVE AjustarLoop(_, _, _)
AjustarLoop(h, linhas, changed) ==
    IF linhas = <<>> THEN [heap |-> h, n |-> changed]
    ELSE LET one == AjustarLinha(h[Head(linhas)])
         IN  AjustarLoop([h EXCEPT ![Head(linhas)] = one.row], Tail(linhas), changed + one.changed)

ajustar_acumuladores(h, linhas) == AjustarLoop(h, linhas, 0)

\* AplicarLinha adding the installment to the list the row already has
AplicarLinhaAppending(r, venc_ddmmaa) ==
    IF _is_cancelada(r) THEN [row |-> r, applied |-> 0]
    ELSE LET val == IF r.VALOR # <<>> THEN r.VALOR ELSE T_zero
         IN  [row |-> [r EXCEPT !.PARCELAS =
                          Append(@, [n |-> <<"1">>, venc |-> venc_ddmmaa, valor |-> val])],
              applied |-> 1]

\* the body of the loop of aplicar_parcelas_uma for one row
AplicarLinha(r, venc_ddmmaa) ==
    IF _is_cancelada(r) THEN [row |-> r, applied |-> 0]
    ELSE LET val == IF r.VALOR # <<>> THEN r.VALOR ELSE T_zero
         IN  [row |-> [r EXCEPT !.PARCELAS = <<[n |-> <<"1">>, venc |-> venc_ddmmaa, valor |-> val]>>],
              applied |-> 1]

RECURSIVE AplicarLoop(_, _, _, _)
AplicarLoop(h, linhas, venc_ddmmaa, applied) ==
    IF linhas = <<>> THEN [heap |-> h, raised |-> FALSE, n |-> applied]
    ELSE LET one == AplicarLinha(h[Head(linhas)], venc_ddmmaa)
         IN  AplicarLoop([h EXCEPT ![Head(linhas)] = one.row], Tail(linhas), venc_ddmmaa,
                         applied + one.applied)

\* raised = TRUE: ValueError("Data de vencimento invalida ...")
aplicar_parcelas_uma(h, linhas, venc_ddmmaa) ==
    IF parse_dd_mm_aaaa(venc_ddmmaa) = None THEN [heap |-> h, raised |-> TRUE, n |-> 0]
    ELSE AplicarLoop(h, linhas, venc_ddmmaa, 0)

\* return (a, p), or the ValueError of aplicar_parcelas_uma passing through
Totais(a_n, p) == [heap |-> p.heap, raised |-> p.raised, a |-> a_n, p |-> p.n]

\* p = aplicar_parcelas_uma(linhas, venc_ddmmaa), on the rows as ajustar_acumuladores left them
AplicarApos(a, linhas, venc_ddmmaa) ==
    Totais(a.n, aplicar_parcelas_uma(a.heap, linhas, venc_ddmmaa))

aplicar_parcelas_e_acumuladores(h, linhas, venc_ddmmaa) ==
    AplicarApos(ajustar_acumuladores(h, linhas), linhas, venc_ddmmaa)

-----------------------------------------------------------------------------
(* panel.py: helpers of the main window                                    *)

Key(r) == <<r.NFE, r.TOMADOR, r.EMISSAO>>

\* dict.setdefault(k, v)
SetDefault(r, k, v) == IF k \in DOMAIN r THEN r ELSE r @@ (k :> v)

\* [view_rows[i] for i in sel_idx if 0 <= i < len(view_rows)]; indices here are 1-based
RowsAt(view, sel) ==
    LET ok == SelectSeq(sel, LAMBDA i : 1 <= i /\ i <= Len(view))
    IN  [k \in 1..Len(ok) |-> view[ok[k]]]

SeqRange(q) == {q[i] : i \in 1..Len(q)}

\* _parcelas_dialog: the text in the field when "Aplicar" is clicked; a text
\* that does not parse keeps the dialog open until it is cancelled (ok = FALSE)
DateResult(d) ==
    IF d = None THEN [ok |-> FALSE, venc |-> <<>>]
    ELSE [ok |-> TRUE, venc |-> format_dd_mm_aaaa(d)]

_parcelas_dialog(field) == DateResult(parse_dd_mm_aaaa(Strip(field)))

\* index_all = {key: rr for rr in all_rows}: the last row of a key wins; 0 = no such key
IndexAll(h, all, key) ==
    LET hits == {i \in 1..Len(all) : Key(h[all[i]]) = key}
    IN  IF hits = {} THEN 0 ELSE all[CHOOSE i \in hits : \A j \in hits : j <= i]

\* for rr in subset: index_all[key]["ACUMULADOR"/"PARCELAS"] = rr.get(...)
RECURSIVE ReflectGera(_, _, _)
ReflectGera(h, all, subset) ==
    IF subset = <<>> THEN h
    ELSE LET rr == h[Head(subset)]
             t == IndexAll(h, all, Key(rr))
             h2 == IF t = 0 THEN h
                   ELSE [h EXCEPT ![t] = [@ EXCEPT !.ACUMULADOR = rr.ACUMULADOR,
                                                   !.PARCELAS = rr.PARCELAS]]
         IN  ReflectGera(h2, all, Tail(subset))

_v0_fmt(x) ==
    IF x.PARCELAS # <<>>
    THEN LET v0 == x.PARCELAS[1].venc
         IN  IF Len(v0) = 10 /\ v0[3] = "-"
             THEN Slice(v0, 0, 2) \o <<"/">> \o Slice(v0, 3, 5) \o <<"/">> \o Slice(v0, 6, Len(v0))
             ELSE v0
    ELSE x.PARCELA

\* rr["PARCELA"] = _v0_fmt(rr) for the subset and for all_rows
RefreshParcela(h, ids) ==
    [id \in DOMAIN h |-> IF id \in ids THEN [h[id] EXCEPT !.PARCELA = _v0_fmt(h[id])] ELSE h[id]]

\* the -GERA-PARC- handler after the dialog returned venc
\* after aplicar_parcelas_e_acumuladores: its ValueError leaves the handler
\* (popup), otherwise the rows are reflected and refreshed
GeraParcReflect(res, all, subset) ==
    IF res.raised THEN [heap |-> res.heap, raised |-> TRUE, a |-> 0, p |-> 0]
    ELSE [heap |-> RefreshParcela(ReflectGera(res.heap, all, subset),
                                  SeqRange(subset) \cup SeqRange(all)),
          raised |-> FALSE, a |-> res.a, p |-> res.p]

GeraParcBody(h, all, subset, venc) ==
    GeraParcReflect(aplicar_parcelas_e_acumuladores(h, subset, venc), all, subset)

\* _auto_acc_from_parcela after base = "424" if iss_ret > 0 else "410"
AccFromBase(base, parcela_val) ==
    IF parcela_val # <<>> THEN (IF base = T_424 THEN T_425 ELSE T_411)
    ELSE base

_auto_acc_from_parcela(vr, parcela_val) ==
    AccFromBase(IF _brl_to_decimal(vr.ISS_RET).num > 0 THEN T_424 ELSE T_410, parcela_val)

\* the first row of all_rows with the key; 0 = none
FirstMatch(h, all, key) ==
    LET hits == {i \in 1..Len(all) : Key(h[all[i]]) = key}
    IN  IF hits = {} THEN 0 ELSE all[CHOOSE i \in hits : \A j \in hits : i <= j]

\* the body of "for idx in sel" of _apply_editor_to_selection for one row
\* row t gets PARCELA and ACUMULADOR; t = 0 is no row
EditorWrite(h, t, parc_fmt, acc) ==
    IF t = 0 THEN h
    ELSE [h EXCEPT ![t] = [@ EXCEPT !.PARCELA = parc_fmt, !.ACUMULADOR = acc]]

\* "for r in all_rows: if same key: r.update(...); break", h1 being the rows
\* after the write to view_rows[idx]
EditorReflect(h1, all, id, parc_fmt, acc) ==
    EditorWrite(h1, FirstMatch(h1, all, Key(h1[id])), parc_fmt, acc)

EditorUpdate(h, all, id, parc_fmt, acc) ==
    EditorReflect(EditorWrite(h, id, parc_fmt, acc), all, id, parc_fmt, acc)

EditorLinha(h, all, id, parc_fmt, acum_forced) ==
    EditorUpdate(h, all, id, parc_fmt,
                 IF acum_forced # <<>> THEN acum_forced
                 ELSE _auto_acc_from_parcela(h[id], parc_fmt))

RECURSIVE EditorLoop(_, _, _, _, _)
EditorLoop(h, all, rows, parc_fmt, acum_forced) ==
    IF rows = <<>> THEN h
    ELSE EditorLoop(EditorLinha(h, all, Head(rows), parc_fmt, acum_forced), all,
                    Tail(rows), parc_fmt, acum_forced)

\* the date check of _apply_editor_to_selection: ok = FALSE is "PARCELA invalida"
EditorParcela(parc_field) ==
    IF Strip(parc_field) = <<>> THEN [ok |-> TRUE, venc |-> <<>>]
    ELSE DateResult(parse_dd_mm_aaaa(_mask_date_typing(Strip(parc_field))))

EditorAcumulador(acum_field) ==
    LET acum_input_raw == Strip(acum_field)
    IN  IF acum_input_raw # <<>> THEN _digits_only(acum_input_raw) ELSE <<>>

_filter_rows_only_discriminacao(h, rows, query) ==
    LET q == Lower(Strip(query))
    IN  IF q = <<>> THEN rows
        ELSE SelectSeq(rows, LAMBDA id : IsSubstring(q, Lower(h[id].DISCRIMINACAO)))

-----------------------------------------------------------------------------
(* services/dominio_export.py                                              *)

\* export_final: the accumulator of the normalised row, as _build_3300 writes it
ExportAcumulador(r) ==
    IF Strip(r.ACUMULADOR) # <<>> THEN Strip(r.ACUMULADOR)
    ELSE IF Lower(Strip(r.STATUS)) # T_cancelada /\ Strip(r.ISS_RET) # T_zero THEN T_425
    ELSE T_411

-----------------------------------------------------------------------------
(* The parser (parsers.nfse_abrasf.NFSeParser), from its specification:     *)
(* the ISS amount goes to ISS_RET or ISS_NORMAL by the retained flag, a     *)
(* cancelled document has its decimal fields forced to "0,00", and the      *)
(* default accumulator is 424 when the retained amount is positive, else    *)
(* 410.  A document that does not parse raises an error with a message.     *)

ParserToRow(doc) ==
    LET cancelled == Lower(Strip(doc.STATUS)) = T_cancelada
        iss_ret == IF cancelled \/ ~doc.retido THEN T_zero ELSE doc.ISS
        iss_normal == IF cancelled \/ doc.retido THEN T_zero ELSE doc.ISS
    IN  [TOMADOR |-> doc.TOMADOR, NFE |-> doc.NFE, EMISSAO |-> doc.EMISSAO,
         VALOR |-> IF cancelled THEN T_zero ELSE doc.VALOR,
         ISS_RET |-> iss_ret, ISS_NORMAL |-> iss_normal,
         DISCRIMINACAO |-> doc.DISCRIMINACAO,
         STATUS |-> IF cancelled THEN T_Cancelada ELSE T_Normal,
         ACUMULADOR |-> IF _brl_to_decimal(iss_ret).num > 0 THEN T_424 ELSE T_410]

\* the documents of the inputs
Doc(nfe, valor, iss, retido, status, discr) ==
    [parses |-> TRUE, NFE |-> nfe, TOMADOR |-> <<"1", ".", "2">>, EMISSAO |-> T_emissao,
     VALOR |-> valor, ISS |-> iss, retido |-> retido, STATUS |-> status,
     DISCRIMINACAO |-> discr, err |-> <<>>]

BadDoc == [parses |-> FALSE, err |-> <<"e", "r", "r">>]

Entry(name, doc) == [kind |-> "entry", name |-> name, doc |-> doc]

\* a source the enumerator cannot read (a file, a ZIP archive): it raises there
Unreadable == [kind |-> "oserror"]

\* what iter_xml_bytes yields for each input path of the model
Inputs ==
    << \* a normal document, a corrupted one and a cancelled one
       << Entry(<<"a">>, Doc(<<"1">>, T_100, T_5, FALSE, T_Normal, <<"x">>)),
          Entry(<<"b">>, BadDoc),
          Entry(<<"c">>, Doc(<<"2">>, T_40, T_5, TRUE, T_Cancelada, <<"y">>)) >>,
       \* two documents with the same (NFE, TOMADOR, EMISSAO), one with ISS retained
       << Entry(<<"a">>, Doc(<<"1">>, T_100, T_5, FALSE, T_Normal, <<"x">>)),
          Entry(<<"z", ":", "a">>, Doc(<<"1">>, T_40, T_5, TRUE, T_Normal, <<"X", "y">>)) >>,
       \* a directory whose second source cannot be read
       << Entry(<<"a">>, Doc(<<"2">>, T_40, T_zero, FALSE, T_Normal, <<"y">>)),
          Unreadable >> >>

\* the text of the installment dialog's field at "Aplicar" (a text put there
\* without a key event is not masked) and of the editor's fields
DialogTexts == {D_blank, D_slash}

EditorParcTexts == {<<>>, D_digits, D_slash}

EditorAccTexts == {<<>>, <<" ", "4", "2", "4">>, <<"9", "-", "9", "9">>}

FilterTexts == {<<>>, <<"X">>, <<"y">>}

\* at most this many loads are requested in a run
MaxLoads == 1

-----------------------------------------------------------------------------
VARIABLES
    heap,       \* the row dicts of the loaded batch, by identity
    all_rows,   \* main(): all_rows, a list of row identities
    view_rows,  \* main(): view_rows
    ui,         \* the status line: -STATUS-, -TOT-, -OK-, -FAIL-
    jobs,       \* the long operations started by -LOAD-, each a run of _parse_all
    doneQ,      \* the -DONE- events written by finished jobs, not yet read
    op,         \* history: the operation of the last step, with its inputs and results
    typed,      \* history: the accumulators typed in the editor and applied so far
    enum,       \* one enumeration: a generator made by iter_xml_bytes and its consumer
    log,        \* the records log_emit wrote to -LOG-, in two runs of the login dialog
    login,      \* the Baixa Integrada login window with its lookup threads
    registry,   \* infra/oracle: _REGISTRY and the threads calling get_pool
    cache,      \* services/empresa_service: _cache and the clock
    entry       \* a due date being typed: the field of the installment dialog or of the editor

\* the state outside the panel's rows
services == <<log, login, registry, cache, entry>>

vars == <<heap, all_rows, view_rows, ui, jobs, doneQ, op, typed, enum, services>>

NoLog == [st |-> "none"]

NoLogin == [st |-> "none"]

NoRegistry == [st |-> "none"]

NoCache == [st |-> "none"]

NoEntry == [where |-> "none"]

ServicesIdle ==
    /\ log = NoLog
    /\ login = NoLogin
    /\ registry = NoRegistry
    /\ cache = NoCache
    /\ entry = NoEntry

\* no enumeration is looked at
NoEnum == [tree |-> 0]

NoOp == [kind |-> "none", rows |-> <<>>, venc |-> <<>>, forced |-> <<>>,
         raised |-> FALSE, a |-> 0, p |-> 0, again |-> FALSE]

OpOf(kind, rows, venc, forced, raised, a, p) ==
    [kind |-> kind, rows |-> rows, venc |-> venc, forced |-> forced,
     raised |-> raised, a |-> a, p |-> p, again |-> FALSE]

Init ==
    /\ heap = <<>>
    /\ all_rows = <<>>
    /\ view_rows = <<>>
    /\ ui = [status |-> "Aguardando", tot |-> 0, ok |-> 0, fail |-> 0]
    /\ jobs = <<>>
    /\ doneQ = <<>>
    /\ op = NoOp
    /\ typed = {}
    /\ enum = NoEnum
    /\ ServicesIdle

\* no batch is loaded and no operation has run
PanelIdle ==
    /\ heap = <<>>
    /\ all_rows = <<>>
    /\ view_rows = <<>>
    /\ ui = [status |-> "Aguardando", tot |-> 0, ok |-> 0, fail |-> 0]
    /\ jobs = <<>>
    /\ doneQ = <<>>
    /\ op = NoOp
    /\ typed = {}
    /\ enum = NoEnum

\* -LOAD- / -LOAD-BAR- with a valid path: the status line is reset and a
\* long operation is started; all_rows and view_rows are left as they are
LoadStart(input) ==
    /\ ui' = [status |-> "Processando", tot |-> 0, ok |-> 0, fail |-> 0]
    /\ jobs' = Append(jobs, [input |-> input, i |-> 0, rows |-> <<>>,
                             counts |-> [total |-> 0, ok |-> 0, fail |-> 0],
                             errors |-> <<>>, st |-> "running"])
    /\ op' = NoOp
    /\ UNCHANGED <<heap, all_rows, view_rows, doneQ, typed, enum, services>>

Load(input) ==
    /\ Len(jobs) < MaxLoads
    /\ LoadStart(input)

\* the row _parse_all appends for a document that parses
ParsedRow(doc) ==
    SetDefault(SetDefault([ParserToRow(doc) EXCEPT !.TOMADOR = _digits_only(@)],
                          "PARCELA", <<>>), "ACUMULADOR", <<>>) @@ [PARCELAS |-> <<>>]

\* ParseOne with a failure counted under total only
ParseOneFailUncounted(job, item) ==
    IF item.doc.parses
    THEN [job EXCEPT !.i = @ + 1,
                     !.rows = Append(@, ParsedRow(item.doc)),
                     !.counts = [total |-> @.total + 1, ok |-> @.ok + 1, fail |-> @.fail]]
    ELSE [job EXCEPT !.i = @ + 1,
                     !.counts = [total |-> @.total + 1, ok |-> @.ok, fail |-> @.fail],
                     !.errors = Append(@, item.name \o <<":", " ">> \o item.doc.err)]

\* ParseOne recording the error text without the name of the entry
ParseOneErrorUnnamed(job, item) ==
    IF item.doc.parses
    THEN [job EXCEPT !.i = @ + 1,
                     !.rows = Append(@, ParsedRow(item.doc)),
                     !.counts = [total |-> @.total + 1, ok |-> @.ok + 1, fail |-> @.fail]]
    ELSE [job EXCEPT !.i = @ + 1,
                     !.counts = [total |-> @.total + 1, ok |-> @.ok, fail |-> @.fail + 1],
                     !.errors = Append(@, item.doc.err)]

\* ParseOne putting the new row in front of the rows built so far
ParseOneNewestFirst(job, item) ==
    IF item.doc.parses
    THEN [job EXCEPT !.i = @ + 1,
                     !.rows = <<ParsedRow(item.doc)>> \o @,
                     !.counts = [total |-> @.total + 1, ok |-> @.ok + 1, fail |-> @.fail]]
    ELSE [job EXCEPT !.i = @ + 1,
                     !.counts = [total |-> @.total + 1, ok |-> @.ok, fail |-> @.fail + 1],
                     !.errors = Append(@, item.name \o <<":", " ">> \o item.doc.err)]

\* one pass of "for name, xml_bytes in iter_xml_bytes(path)" of _parse_all
ParseOne(job, item) ==
    IF item.doc.parses
    THEN [job EXCEPT !.i = @ + 1,
                     !.rows = Append(@, ParsedRow(item.doc)),
                     !.counts = [total |-> @.total + 1, ok |-> @.ok + 1, fail |-> @.fail]]
    ELSE [job EXCEPT !.i = @ + 1,
                     !.counts = [total |-> @.total + 1, ok |-> @.ok, fail |-> @.fail + 1],
                     !.errors = Append(@, item.name \o <<":", " ">> \o item.doc.err)]

\* the worker thread of job j takes the next entry of the enumerator
JobStep(j) ==
    /\ j \in 1..Len(jobs)
    /\ jobs[j].st = "running"
    /\ jobs[j].i < Len(Inputs[jobs[j].input])
    /\ LET item == Inputs[jobs[j].input][jobs[j].i + 1]
       IN  IF item.kind = "entry"
           THEN /\ jobs' = [jobs EXCEPT ![j] = ParseOne(jobs[j], item)]
                /\ doneQ' = doneQ
           ELSE \* the enumerator raises: _parse_all is left, _safe_long_job returns ("error", ...)
                /\ jobs' = [jobs EXCEPT ![j] = [@ EXCEPT !.st = "error"]]
                /\ doneQ' = Append(doneQ, j)
    /\ op' = NoOp
    /\ UNCHANGED <<heap, all_rows, view_rows, ui, typed, enum, services>>

\* the enumerator is exhausted: _parse_all returns rows, counts, errors
JobReturn(j) ==
    /\ j \in 1..Len(jobs)
    /\ jobs[j].st = "running"
    /\ jobs[j].i = Len(Inputs[jobs[j].input])
    /\ jobs' = [jobs EXCEPT ![j] = [@ EXCEPT !.st = "ok"]]
    /\ doneQ' = Append(doneQ, j)
    /\ op' = NoOp
    /\ UNCHANGED <<heap, all_rows, view_rows, ui, typed, enum, services>>

\* the -DONE- event of the job at the head of the event queue
Done ==
    /\ doneQ # <<>>
    /\ LET job == jobs[Head(doneQ)]
       IN  IF job.st = "error"
           THEN /\ ui' = [ui EXCEPT !.status = "Falhou"]
                /\ UNCHANGED <<heap, all_rows, view_rows>>
           ELSE /\ heap' = job.rows
                /\ all_rows' = [k \in 1..Len(job.rows) |-> k]
                /\ view_rows' = [k \in 1..Len(job.rows) |-> k]
                /\ ui' = [status |-> "Concluido", tot |-> job.counts.total,
                          ok |-> job.counts.ok, fail |-> job.counts.fail]
    \* the payload of the event is consumed: the job keeps only its input
    /\ jobs' = [jobs EXCEPT ![Head(doneQ)] =
                   [@ EXCEPT !.st = "handled", !.rows = <<>>, !.errors = <<>>]]
    /\ doneQ' = Tail(doneQ)
    /\ op' = NoOp
    /\ UNCHANGED <<typed, enum, services>>

\* -FILTER-: sort_state has no column, so the filtered list keeps its order
Filter(q) ==
    /\ view_rows' = _filter_rows_only_discriminacao(heap, all_rows, q)
    /\ op' = NoOp
    /\ UNCHANGED <<heap, all_rows, ui, jobs, doneQ, typed, enum, services>>

\* the selections of the table: ascending lists of distinct row indices
Selections(n) ==
    {<<>>} \cup {<<i>> : i \in 1..n}
           \cup {<<i, j>> : i \in 1..n, j \in 1..n}
           \cup {<<i, j, k>> : i \in 1..n, j \in 1..n, k \in 1..n}

IsAscending(q) == \A i \in 1..(Len(q) - 1) : q[i] < q[i + 1]

AscSelections(n) == {s \in Selections(n) : IsAscending(s)}

\* -GERA-PARC-: the selected rows, or every visible row without a selection
GeraParcApply(subset, venc, res) ==
    /\ heap' = res.heap
    /\ op' = OpOf("gera", subset, venc, <<>>, res.raised, res.a, res.p)

\* "if not venc: continue" when the dialog was cancelled
GeraParcDialog(subset, dlg) ==
    /\ dlg.ok
    /\ GeraParcApply(subset, dlg.venc, GeraParcBody(heap, all_rows, subset, dlg.venc))

GeraParc(sel, field) ==
    /\ view_rows # <<>>
    /\ GeraParcDialog(IF sel # <<>> THEN RowsAt(view_rows, sel) ELSE view_rows,
                      _parcelas_dialog(field))
    /\ UNCHANGED <<all_rows, view_rows, ui, jobs, doneQ, typed, enum, services>>

\* -EDT-APPLY-: _apply_editor_to_selection
EdtApplyRows(rows, parc, acum_forced) ==
    /\ parc.ok
    /\ heap' = EditorLoop(heap, all_rows, rows, parc.venc, acum_forced)
    /\ op' = OpOf("edit", rows, parc.venc, acum_forced, FALSE, 0, 0)
    /\ typed' = IF acum_forced # <<>> THEN typed \cup {acum_forced} ELSE typed

EdtApply(sel, parc_field, acum_field) ==
    /\ sel # <<>>
    /\ EdtApplyRows(RowsAt(view_rows, sel), EditorParcela(parc_field),
                    EditorAcumulador(acum_field))
    /\ UNCHANGED <<all_rows, view_rows, ui, jobs, doneQ, enum, services>>

Next ==
    \/ \E input \in 1..Len(Inputs) : Load(input)
    \/ \E j \in 1..MaxLoads : JobStep(j)
    \/ \E j \in 1..MaxLoads : JobReturn(j)
    \/ Done
    \/ \E q \in FilterTexts : Filter(q)
    \/ \E field \in DialogTexts, sel \in AscSelections(Len(view_rows)) :
          GeraParc(sel, field)
    \/ \E parc_field \in EditorParcTexts, acum_field \in EditorAccTexts,
          sel \in AscSelections(Len(view_rows)) :
          EdtApply(sel, parc_field, acum_field)

Spec == Init /\ [][Next]_vars

\* Loads only: -LOAD- has no guard against a load that is still running, so
\* a second long operation can be started beside the first

\* at most this many loads are requested, one beside the other
MaxRequests == 2

Reload(input) ==
    /\ Len(jobs) < MaxRequests
    /\ LoadStart(input)

NextLoads ==
    \/ \E input \in 1..Len(Inputs) : Reload(input)
    \/ \E j \in 1..Len(jobs) : JobStep(j)
    \/ \E j \in 1..Len(jobs) : JobReturn(j)
    \/ Done

SpecLoads == Init /\ [][NextLoads]_vars

-----------------------------------------------------------------------------
(* The functions of services/parcelas.py called on their own: the rows of   *)
(* the list are drawn from the shapes a caller can pass (any accumulator,   *)
(* with or without an installment list), the due date from DeriverDates.    *)

TwoParcelas ==
    << [n |-> <<"1">>, venc |-> D_dash, valor |-> T_40],
       [n |-> <<"2">>, venc |-> D_dash, valor |-> T_40] >>

DeriverRow(status, acc, iss_ret, parcelas) ==
    [TOMADOR |-> <<"1", "2">>, NFE |-> <<"1">>, EMISSAO |-> T_emissao,
     VALOR |-> T_100, ISS_RET |-> iss_ret,
     ISS_NORMAL |-> IF iss_ret = T_zero THEN T_5 ELSE T_zero,
     DISCRIMINACAO |-> <<"x">>, STATUS |-> status, ACUMULADOR |-> acc,
     PARCELA |-> IF parcelas = <<>> THEN <<>> ELSE D_slash,
     PARCELAS |-> parcelas]

\* an accumulator with the retained ISS it goes with; a row without a code has either
DeriverAccs == {<<T_410, T_zero>>, <<T_424, T_5>>, <<<<>>, T_zero>>, <<<<>>, T_5>>}

DeriverShapes ==
    {DeriverRow(status, ai[1], ai[2], parcelas) :
        status \in {T_Normal, T_Cancelada},
        ai \in DeriverAccs,
        parcelas \in {<<>>, TwoParcelas}}

DeriverDates == {D_dash, D_slash, D_nocal}

\* the length of the list of rows passed to the functions
DeriverRows == 2

\* the lists passed: the first row, or both
DeriverLists == {[k \in 1..n |-> k] : n \in 1..DeriverRows}

InitDeriver ==
    /\ heap \in [1..DeriverRows -> DeriverShapes]
    /\ all_rows = [k \in 1..DeriverRows |-> k]
    /\ view_rows = [k \in 1..DeriverRows |-> k]
    /\ ui = [status |-> "Aguardando", tot |-> 0, ok |-> 0, fail |-> 0]
    /\ jobs = <<>>
    /\ doneQ = <<>>
    /\ op = NoOp
    /\ typed = {}
    /\ enum = NoEnum
    /\ ServicesIdle

CallAjustar(linhas) ==
    /\ LET res == ajustar_acumuladores(heap, linhas)
       IN  /\ heap' = res.heap
           /\ op' = OpOf("ajustar_acumuladores", linhas, <<>>, <<>>, FALSE, res.n, 0)
    /\ UNCHANGED <<all_rows, view_rows, ui, jobs, doneQ, typed, enum, services>>

CallAplicarUma(linhas, venc) ==
    /\ LET res == aplicar_parcelas_uma(heap, linhas, venc)
       IN  /\ heap' = res.heap
           /\ op' = OpOf("aplicar_parcelas_uma", linhas, venc, <<>>, res.raised, 0, res.n)
    /\ UNCHANGED <<all_rows, view_rows, ui, jobs, doneQ, typed, enum, services>>

\* again: the call before this one was the same call on the same list with the
\* same due date
CallAplicarEAcumuladores(linhas, venc) ==
    /\ LET res == aplicar_parcelas_e_acumuladores(heap, linhas, venc)
       IN  /\ heap' = res.heap
           /\ op' = [OpOf("aplicar_parcelas_e_acumuladores", linhas, venc, <<>>,
                          res.raised, res.a, res.p)
                       EXCEPT !.again = /\ op.kind = "aplicar_parcelas_e_acumuladores"
                                        /\ op.rows = linhas
                                        /\ op.venc = venc]
    /\ UNCHANGED <<all_rows, view_rows, ui, jobs, doneQ, typed, enum, services>>

NextDeriver ==
    \/ \E linhas \in DeriverLists : CallAjustar(linhas)
    \/ \E linhas \in DeriverLists, venc \in DeriverDates :
          CallAplicarUma(linhas, venc)
    \/ \E linhas \in DeriverLists, venc \in DeriverDates :
          CallAplicarEAcumuladores(linhas, venc)

SpecDeriver == InitDeriver /\ [][NextDeriver]_vars

-----------------------------------------------------------------------------
(* dataio/loaders.py: the enumerator iter_xml_bytes, a generator, and the   *)
(* listing list_entries. An input is a path of a file system that does not  *)
(* change while it is enumerated: a directory with the files rglob finds    *)
(* under it (in the listing order of the file system), one file, or         *)
(* nothing. A file says whether reading it (opening it, for an archive)     *)
(* succeeds; an archive has its infolist, each entry saying whether         *)
(* zf.read succeeds. Extensions of files on disk are written in lower case, *)
(* where the glob of every platform matches them.                           *)

\* the characters of the paths, in code point order
CodeOrder ==
    <<".", "/", ":", "C", "E", "L", "M", "a", "c", "d", "e", "i", "l", "m", "n",
      "p", "t", "x", "z">>

CharCode(c) == CHOOSE i \in 1..Len(CodeOrder) : CodeOrder[i] = c

\* s < t of two str
RECURSIVE StrLess(_, _)
StrLess(s, t) ==
    IF t = <<>> THEN FALSE
    ELSE IF s = <<>> THEN TRUE
    ELSE IF Head(s) = Head(t) THEN StrLess(Tail(s), Tail(t))
    ELSE CharCode(Head(s)) < CharCode(Head(t))

\* the place sorted(xs, key=...) gives the element at k: behind the elements
\* with a smaller key and behind those with an equal key that come before it
Rank(keys, k) ==
    Cardinality({i \in 1..Len(keys) :
                    StrLess(keys[i], keys[k]) \/ (keys[i] = keys[k] /\ i < k)}) + 1

SortedByKey(xs, keys) ==
    [r \in 1..Len(xs) |-> xs[CHOOSE k \in 1..Len(xs) : Rank(keys, k) = r]]

EndsWith(s, suffix) ==
    Len(s) >= Len(suffix) /\ SubSeq(s, Len(s) - Len(suffix) + 1, Len(s)) = suffix

X_xml == <<".", "x", "m", "l">>

X_zip == <<".", "z", "i", "p">>

\* Path.name: the last component of a path
RECURSIVE PathName(_)
PathName(path) ==
    IF Contains(path, "/") THEN PathName(Tail(path)) ELSE path

\* sorted(p.rglob("*" + ext), key=lambda x: str(x).lower())
SortedRglob(tree, ext) ==
    SortedByKey(SelectSeq(tree.files, LAMBDA f : EndsWith(f.path, ext)),
                [k \in 1..Len(SelectSeq(tree.files, LAMBDA f : EndsWith(f.path, ext)))
                    |-> Lower(SelectSeq(tree.files, LAMBDA f : EndsWith(f.path, ext))[k].path)])

\* the infolist as the archive has it, unsorted
SortedInfolistArchiveOrder(zp) == zp.infos

\* sorted(zf.infolist(), key=lambda i: i.filename.lower())
SortedInfolist(zp) ==
    SortedByKey(zp.infos, [k \in 1..Len(zp.infos) |-> Lower(zp.infos[k].filename)])

\* not info.is_dir() and info.filename.lower().endswith(".xml")
IsXmlInfo(info) ==
    /\ info.filename[Len(info.filename)] # "/"
    /\ EndsWith(Lower(info.filename), X_xml)

\* zf.read(name) finds the entry by name: the last one of the archive with it
ReadIndex(zp, name) ==
    CHOOSE k \in 1..Len(zp.infos) :
       /\ zp.infos[k].filename = name
       /\ \A j \in (k + 1)..Len(zp.infos) : zp.infos[j].filename # name

\* what a generator does when it is run to its end: the archives it opens
\* and closes, the names it yields (src, k: the file, and the entry of the
\* archive, whose content goes with the name) and the exception that ends it
Event(ev, name, src, k) == [ev |-> ev, name |-> name, src |-> src, k |-> k]

Raises(src) == Event("raise", <<>>, src, 0)

Raised(evs) == evs # <<>> /\ evs[Len(evs)].ev = "raise"

\* the statements after evs run only if evs did not raise
Then(evs, rest) == IF Raised(evs) THEN evs ELSE evs \o rest

\* f"{zp.name}:{name}"
ZipEntryName(zp, name) == PathName(zp.path) \o <<":">> \o name

\* the loop of _iter_zip_xml from the k-th sorted info on; leaving the with
\* block, at the end or by the exception of zf.read, closes the archive
RECURSIVE ZipLoop(_, _, _)
ZipLoop(zp, infos, k) ==
    IF k > Len(infos) THEN <<Event("close", <<>>, zp.path, 0)>>
    ELSE IF ~IsXmlInfo(infos[k]) THEN ZipLoop(zp, infos, k + 1)
    ELSE IF ~zp.infos[ReadIndex(zp, infos[k].filename)].ok
         THEN <<Event("close", <<>>, zp.path, 0), Raises(zp.path)>>
    ELSE <<Event("yield", ZipEntryName(zp, infos[k].filename), zp.path,
                 ReadIndex(zp, infos[k].filename))>>
         \o ZipLoop(zp, infos, k + 1)

_iter_zip_xml(zp) ==
    IF ~zp.ok THEN <<Raises(zp.path)>>
    ELSE <<Event("open", <<>>, zp.path, 0)>> \o ZipLoop(zp, SortedInfolist(zp), 1)

\* for fp in sorted(p.rglob("*.xml"), ...): yield str(fp), fp.read_bytes()
RECURSIVE LooseLoop(_, _)
LooseLoop(files, k) ==
    IF k > Len(files) THEN <<>>
    ELSE IF ~files[k].ok THEN <<Raises(files[k].path)>>
    ELSE <<Event("yield", files[k].path, files[k].path, 0)>> \o LooseLoop(files, k + 1)

\* for zp in sorted(p.rglob("*.zip"), ...): yield from _iter_zip_xml(zp)
RECURSIVE ZipsLoop(_, _)
ZipsLoop(zips, k) ==
    IF k > Len(zips) THEN <<>>
    ELSE Then(_iter_zip_xml(zips[k]), ZipsLoop(zips, k + 1))

iter_xml_bytes(tree) ==
    IF tree.kind = "missing" THEN <<Raises(tree.path)>>
    ELSE IF tree.kind = "file" /\ EndsWith(Lower(tree.path), X_zip)
         THEN _iter_zip_xml(tree.files[1])
    ELSE IF tree.kind = "dir"
         THEN Then(LooseLoop(SortedRglob(tree, X_xml), 1),
                   ZipsLoop(SortedRglob(tree, X_zip), 1))
    ELSE IF tree.kind = "file" /\ EndsWith(Lower(tree.path), X_xml)
         THEN LooseLoop(tree.files, 1)
    ELSE <<Raises(tree.path)>>

\* ListZip naming every entry of the archive, directories and other files too
ListZipEveryInfo(zp) ==
    [k \in 1..Len(SortedInfolist(zp)) |-> ZipEntryName(zp, SortedInfolist(zp)[k].filename)]

\* the names of the entries of one archive as list_entries builds them
ListZip(zp) ==
    [k \in 1..Len(SelectSeq(SortedInfolist(zp), IsXmlInfo)) |->
        ZipEntryName(zp, SelectSeq(SortedInfolist(zp), IsXmlInfo)[k].filename)]

\* the loop of list_entries over the archives of a directory: opening an
\* archive that cannot be opened raises
RECURSIVE ListZips(_, _)
ListZips(zips, k) ==
    IF k > Len(zips) THEN [ok |-> TRUE, names |-> <<>>]
    ELSE IF ~zips[k].ok \/ ~ListZips(zips, k + 1).ok THEN [ok |-> FALSE, names |-> <<>>]
    ELSE [ok |-> TRUE, names |-> ListZip(zips[k]) \o ListZips(zips, k + 1).names]

\* list_entries: ok is FALSE when it raises
list_entries(tree) ==
    IF tree.kind = "missing" THEN [ok |-> FALSE, names |-> <<>>]
    ELSE IF tree.kind = "file" /\ EndsWith(Lower(tree.path), X_zip)
         THEN IF tree.files[1].ok
              THEN [ok |-> TRUE, names |-> ListZip(tree.files[1])]
              ELSE [ok |-> FALSE, names |-> <<>>]
    ELSE IF tree.kind = "dir"
         THEN IF ListZips(SortedRglob(tree, X_zip), 1).ok
              THEN [ok |-> TRUE,
                    names |-> [k \in 1..Len(SortedRglob(tree, X_xml)) |->
                                  SortedRglob(tree, X_xml)[k].path]
                              \o ListZips(SortedRglob(tree, X_zip), 1).names]
              ELSE [ok |-> FALSE, names |-> <<>>]
    ELSE IF tree.kind = "file" /\ EndsWith(Lower(tree.path), X_xml)
         THEN [ok |-> TRUE, names |-> <<tree.path>>]
    ELSE [ok |-> FALSE, names |-> <<>>]

\* the files of the inputs
FileAt(path, ok) == [path |-> path, ok |-> ok, infos |-> <<>>]

ZipAt(path, ok, infos) == [path |-> path, ok |-> ok, infos |-> infos]

Info(filename, ok) == [filename |-> filename, ok |-> ok]

P_d == <<"d">>

P_a_xml == <<"d", "/", "a">> \o X_xml

P_C_xml == <<"d", "/", "C">> \o X_xml

P_n_zip == <<"d", "/", "n">> \o X_zip

P_m_zip == <<"d", "/", "m">> \o X_zip

P_a_n_zip == <<"d", "/", "a", "/", "n">> \o X_zip

P_a_m_zip == <<"d", "/", "a", "/", "m">> \o X_zip

P_c_m_zip == <<"d", "/", "c", "/", "m">> \o X_zip

P_n_txt == <<"d", "/", "n", ".", "t", "x", "t">>

N_e_xml == <<"e">> \o X_xml

N_d_xml == <<"d">> \o X_xml

N_E_xML == <<"E", ".", "x", "M", "L">>

Trees ==
    << \* loose files and one archive, none in sorted order; the archive has a
       \* directory entry and an entry that is no XML
       [kind |-> "dir", path |-> P_d,
        files |-> <<FileAt(P_C_xml, TRUE),
                    ZipAt(P_n_zip, TRUE, <<Info(N_E_xML, TRUE), Info(<<"a", "/">>, TRUE),
                                           Info(N_d_xml, TRUE), Info(P_n_txt, TRUE)>>),
                    FileAt(P_a_xml, TRUE), FileAt(P_n_txt, TRUE)>>],
       \* two archives in different sub-directories
       [kind |-> "dir", path |-> P_d,
        files |-> <<ZipAt(P_c_m_zip, TRUE, <<Info(N_e_xml, TRUE)>>),
                    ZipAt(P_a_n_zip, TRUE, <<Info(N_d_xml, TRUE)>>)>>],
       \* two archives with the same file name in different sub-directories
       [kind |-> "dir", path |-> P_d,
        files |-> <<ZipAt(P_a_m_zip, TRUE, <<Info(N_e_xml, TRUE)>>),
                    ZipAt(P_c_m_zip, TRUE, <<Info(N_e_xml, TRUE)>>)>>],
       \* one archive with a repeated entry name
       [kind |-> "file", path |-> P_m_zip,
        files |-> <<ZipAt(P_m_zip, TRUE, <<Info(N_e_xml, TRUE), Info(N_d_xml, TRUE),
                                           Info(N_e_xml, TRUE)>>)>>],
       \* a loose file that cannot be read
       [kind |-> "dir", path |-> P_d,
        files |-> <<FileAt(P_a_xml, TRUE), FileAt(P_C_xml, FALSE),
                    ZipAt(P_m_zip, TRUE, <<Info(N_e_xml, TRUE)>>)>>],
       \* an archive that cannot be opened, behind one that can
       [kind |-> "dir", path |-> P_d,
        files |-> <<FileAt(P_a_xml, TRUE), ZipAt(P_n_zip, FALSE, <<>>),
                    ZipAt(P_m_zip, TRUE, <<Info(N_e_xml, TRUE)>>)>>],
       \* an archive with an entry that cannot be read
       [kind |-> "dir", path |-> P_d,
        files |-> <<ZipAt(P_m_zip, TRUE, <<Info(N_d_xml, TRUE), Info(N_e_xml, FALSE)>>),
                    ZipAt(P_n_zip, TRUE, <<Info(N_e_xml, TRUE)>>)>>],
       \* one XML file
       [kind |-> "file", path |-> P_a_xml, files |-> <<FileAt(P_a_xml, TRUE)>>],
       \* a path that does not exist, and a file that is neither .zip nor .xml
       [kind |-> "missing", path |-> P_d, files |-> <<>>],
       [kind |-> "file", path |-> P_n_txt, files |-> <<FileAt(P_n_txt, TRUE)>>] >>

\* the archives open after the events evs, starting with the archives open
RECURSIVE OpenAfter(_, _)
OpenAfter(open, evs) ==
    IF evs = <<>> THEN open
    ELSE OpenAfter(IF Head(evs).ev = "open" THEN open \cup {Head(evs).src}
                   ELSE IF Head(evs).ev = "close" THEN open \ {Head(evs).src}
                   ELSE open,
                   Tail(evs))

\* the largest number of archives open at a time while evs happen
Larger(a, b) == IF a > b THEN a ELSE b

RECURSIVE PeakOpen(_, _)
PeakOpen(open, evs) ==
    IF evs = <<>> THEN Cardinality(open)
    ELSE Larger(Cardinality(open), PeakOpen(OpenAfter(open, <<Head(evs)>>), Tail(evs)))

\* next(gen) runs the generator from its k-th event up to its next yield,
\* or to its end: the position of the event it stops at
NextStop(evs, k) ==
    IF \E i \in (k + 1)..Len(evs) : evs[i].ev = "yield"
    THEN CHOOSE i \in (k + 1)..Len(evs) :
            evs[i].ev = "yield" /\ \A j \in (k + 1)..(i - 1) : evs[j].ev # "yield"
    ELSE Len(evs)

NotListed == [called |-> FALSE]

InitEnum ==
    /\ heap = <<>>
    /\ all_rows = <<>>
    /\ view_rows = <<>>
    /\ ui = [status |-> "Aguardando", tot |-> 0, ok |-> 0, fail |-> 0]
    /\ jobs = <<>>
    /\ doneQ = <<>>
    /\ op = NoOp
    /\ typed = {}
    /\ ServicesIdle
    /\ \E t \in 1..Len(Trees) :
          enum = [tree |-> t, k |-> 0, st |-> "created", consumer |-> "consuming",
                  open |-> {}, peak |-> 0, out |-> <<>>, listed |-> NotListed]

\* the generator after next(gen) took it from event k to event stop of evs
Resumed(e, evs, stop) ==
    [e EXCEPT !.k = stop,
              !.st = IF stop > e.k /\ evs[stop].ev = "yield" THEN "suspended"
                     ELSE IF Raised(evs) THEN "raised"
                     ELSE "finished",
              !.open = OpenAfter(e.open, SubSeq(evs, e.k + 1, stop)),
              !.peak = PeakOpen(e.open, SubSeq(evs, e.k + 1, stop)),
              !.out = IF stop > e.k /\ evs[stop].ev = "yield"
                      THEN Append(e.out, evs[stop]) ELSE e.out]

\* the consumer asks for the next entry: next(gen)
EnumNext ==
    /\ enum.consumer = "consuming"
    /\ enum.st \in {"created", "suspended"}
    /\ enum' = Resumed(enum, iter_xml_bytes(Trees[enum.tree]),
                       NextStop(iter_xml_bytes(Trees[enum.tree]), enum.k))
    /\ UNCHANGED <<heap, all_rows, view_rows, ui, jobs, doneQ, op, typed, services>>

\* the consumer stops asking (a break, an exception of its own) before the
\* generator has ended; the generator object is still there
EnumStop ==
    /\ enum.consumer = "consuming"
    /\ enum.st \in {"created", "suspended"}
    /\ enum' = [enum EXCEPT !.consumer = "stopped"]
    /\ UNCHANGED <<heap, all_rows, view_rows, ui, jobs, doneQ, op, typed, services>>

\* gen.close(), called or run when the generator object is collected:
\* GeneratorExit is raised at the yield and the with block closes the archive
EnumClose ==
    /\ enum.consumer = "stopped"
    /\ enum.st \in {"created", "suspended"}
    /\ enum' = [enum EXCEPT !.st = "closed", !.open = {}]
    /\ UNCHANGED <<heap, all_rows, view_rows, ui, jobs, doneQ, op, typed, services>>

\* list_entries(input_path) for the same input
CallListEntries ==
    /\ ~enum.listed.called
    /\ enum' = [enum EXCEPT !.listed = [called |-> TRUE,
                                        ok |-> list_entries(Trees[enum.tree]).ok,
                                        names |-> list_entries(Trees[enum.tree]).names]]
    /\ UNCHANGED <<heap, all_rows, view_rows, ui, jobs, doneQ, op, typed, services>>

NextEnum ==
    \/ EnumNext
    \/ EnumStop
    \/ EnumClose
    \/ CallListEntries

SpecEnum == InitEnum /\ [][NextEnum]_vars

-----------------------------------------------------------------------------
(* The currency normalizer: the three copies of the BRL parser and          *)
(* formatter (services/parcelas.py, panel.py, services/dominio_export.py),  *)
(* and the ISS split of services/dominio_nfse.py, whose _to_decimal and     *)
(* _fmt_brl are those of dominio_export.py. A Decimal is num / 10^scale.    *)

RECURSIVE Pow10(_)
Pow10(n) == IF n = 0 THEN 1 ELSE 10 * Pow10(n - 1)

\* str(n) for n >= 0
RECURSIVE IntText(_)
IntText(n) == IF n < 10 THEN <<DigitChar(n)>> ELSE IntText(n \div 10) \o <<DigitChar(n % 10)>>

\* f"{n:,}".replace(",", ".") for n >= 0
RECURSIVE Grouped(_)
Grouped(n) ==
    IF n < 1000 THEN IntText(n)
    ELSE Grouped(n \div 1000)
         \o <<".", DigitChar((n % 1000) \div 100), DigitChar((n \div 10) % 10), DigitChar(n % 10)>>

\* rounding the remainder r of a division by unit, the quotient being q:
\* ROUND_HALF_UP takes a tie away from zero, ROUND_HALF_EVEN to the even q
RoundsUp(r, unit, q, half_up) ==
    2 * r > unit \/ (2 * r = unit /\ (half_up \/ q % 2 = 1))

\* d.quantize(Decimal("0.01")): the hundredths of the magnitude mag / 10^scale
Hundredths(mag, scale, half_up) ==
    IF scale <= 2 THEN mag * Pow10(2 - scale)
    ELSE (mag \div Pow10(scale - 2))
         + (IF RoundsUp(mag % Pow10(scale - 2), Pow10(scale - 2),
                        mag \div Pow10(scale - 2), half_up) THEN 1 ELSE 0)

\* s = f"{v:.2f}"; intp, frac = s.split("."); intp = int(intp); the text
\* f"{intp:,}".replace(",", ".") + "," + frac. int("-0") is 0, without a sign
BrlText(negative, h) ==
    (IF negative /\ h \div 100 > 0 THEN <<"-">> ELSE <<>>)
       \o Grouped(h \div 100) \o <<",">> \o Pad2(h % 100)

Magnitude(n) == IF n < 0 THEN 0 - n ELSE n

\* panel.py; _fmt_brl of services/parcelas.py is the same (default rounding)
_decimal_to_brl(d) == BrlText(d.num < 0, Hundredths(Magnitude(d.num), d.scale, FALSE))

\* services/dominio_export.py and services/dominio_nfse.py (ROUND_HALF_UP)
_fmt_brl(d) == BrlText(d.num < 0, Hundredths(Magnitude(d.num), d.scale, TRUE))

\* the value None where a text is expected (a NULL column of the query)
NoText == <<"None">>

\* _to_decimal of dominio_export.py / dominio_nfse.py and _to_decimal_brl of
\* parcelas.py: None and "" give 0, the rest is parsed as _brl_to_decimal does
_to_decimal(x) == IF x = NoText THEN [num |-> 0, scale |-> 0] ELSE _brl_to_decimal(x)

\* the three copies of the normalizer
Normalizers == {"parcelas", "panel", "export"}

ParseBy(impl, s) == IF impl = "panel" THEN _brl_to_decimal(s) ELSE _to_decimal(s)

DisplayBy(impl, d) == IF impl = "export" THEN _fmt_brl(d) ELSE _decimal_to_brl(d)

\* the input strings of the normalizer
MoneyTexts ==
    { <<"1", ".", "2", "3", "4", ",", "5">>, <<"1", "2", "3", "4", ",", "5", "6">>,
      <<"1", "2", "3", "4", ".", "5", "6">>, <<"0", ",", "5">>, <<"-", "0", ",", "5", "0">>,
      <<"-", "1", ".", "2", "3", "4", ",", "5", "0">>, <<"-", "5">>, <<"1", ",", "2", "3", "4">>,
      <<"1", ",", "0", "0", "5">>, <<"2", ",", "6", "7", "5">>, <<"x">>, <<>>,
      <<" ", "1", "2", " ">>, <<"1", ".", "0", "0", "0">>, <<"9", "9", "9", ",", "9", "9">>,
      <<"1", "0", "0", "0">>, <<"0">>, <<"-", "0", ",", "0", "0", "4">>,
      <<"1", ".", "2", "3", "4", ".", "5", "6", "7", ",", "8">>, <<"+", "3", ",", "1", "0">> }

\* str(v).strip().lower() in {...} of _iss_retido_to_bool; the result is
\* "None" for a flag that is absent or not recognised
_iss_retido_to_bool(v) ==
    IF v = NoText THEN "None"
    ELSE IF Lower(Strip(v)) \in {<<"s">>, <<"s", "i", "m">>, <<"1">>, <<"t", "r", "u", "e">>}
         THEN "True"
    ELSE IF Lower(Strip(v)) \in {<<"n">>, <<"n", "a", "o">>, <<"n", "ã", "o">>, <<"0">>,
                                 <<"f", "a", "l", "s", "e">>}
         THEN "False"
    ELSE "None"

\* the ISS fields with the whole amount in both of them
IssSplitBoth(viss, retido) ==
    [ISS_RET |-> _fmt_brl(viss), ISS_NORMAL |-> _fmt_brl(viss)]

\* buscar_nfse_por_numeros: the ISS_RET / ISS_NORMAL of the row built from
\* viss = _to_decimal(VR_ISS) and retido = _iss_retido_to_bool(ISS_RETIDO)
IssSplit(viss, retido) ==
    IF retido = "True"
    THEN [ISS_RET |-> _fmt_brl(viss), ISS_NORMAL |-> _fmt_brl([num |-> 0, scale |-> 0])]
    ELSE [ISS_RET |-> _fmt_brl([num |-> 0, scale |-> 0]), ISS_NORMAL |-> _fmt_brl(viss)]

\* the VR_ISS and ISS_RETIDO columns of the rows the query returns
IssAmounts ==
    { NoText, <<"0">>, <<"5", ".", "5">>, <<"1", "2", "3", "4", ".", "5">>,
      <<"0", ".", "0", "0", "4">>, <<"0", ".", "0", "0", "5">>, <<"-", "5">> }

IssFlags ==
    { NoText, <<"S">>, <<" ", "s", "i", "m", " ">>, <<"N">>, <<"1">>, <<"0">>,
      <<"T", "R", "U", "E">>, <<"x">> }

InitValues ==
    /\ heap = <<>>
    /\ all_rows = <<>>
    /\ view_rows = <<>>
    /\ ui = [status |-> "Aguardando", tot |-> 0, ok |-> 0, fail |-> 0]
    /\ jobs = <<>>
    /\ doneQ = <<>>
    /\ typed = {}
    /\ enum = NoEnum
    /\ ServicesIdle
    /\ \/ \E impl \in Normalizers, s \in MoneyTexts :
             op = [kind |-> "text", impl |-> impl, text |-> s]
       \/ \E amount \in IssAmounts, flag \in IssFlags :
             op = [kind |-> "db_row", VR_ISS |-> amount, ISS_RETIDO |-> flag]

\* the normalizer parses an input string
Normalize ==
    /\ op.kind = "text"
    /\ op' = [kind |-> "value", impl |-> op.impl, text |-> op.text,
              value |-> ParseBy(op.impl, op.text)]
    /\ UNCHANGED <<heap, all_rows, view_rows, ui, jobs, doneQ, typed, enum, services>>

\* the value is displayed in its canonical form
Display ==
    /\ op.kind = "value"
    /\ op' = [kind |-> "display", impl |-> op.impl, text |-> op.text, value |-> op.value,
              shown |-> DisplayBy(op.impl, op.value)]
    /\ UNCHANGED <<heap, all_rows, view_rows, ui, jobs, doneQ, typed, enum, services>>

\* the displayed form is parsed again
Reparse ==
    /\ op.kind = "display"
    /\ op' = [kind |-> "reparsed", impl |-> op.impl, text |-> op.text, value |-> op.value,
              shown |-> op.shown, again |-> ParseBy(op.impl, op.shown)]
    /\ UNCHANGED <<heap, all_rows, view_rows, ui, jobs, doneQ, typed, enum, services>>

\* buscar_nfse_por_numeros builds the row of one record of the query
BuildIss ==
    /\ op.kind = "db_row"
    /\ op' = [kind |-> "nfse_row", VR_ISS |-> op.VR_ISS, ISS_RETIDO |-> op.ISS_RETIDO,
              row |-> IssSplit(_to_decimal(op.VR_ISS), _iss_retido_to_bool(op.ISS_RETIDO))]
    /\ UNCHANGED <<heap, all_rows, view_rows, ui, jobs, doneQ, typed, enum, services>>

NextValues ==
    \/ Normalize
    \/ Display
    \/ Reparse
    \/ BuildIss

SpecValues == InitValues /\ [][NextValues]_vars

-----------------------------------------------------------------------------
(* services/dominio_export.py: export_final, called on a list of rows. The  *)
(* file written is the sequence of its lines; a line is its record type,    *)
(* the row it was written for (0 for header and trailer) and the fields     *)
(* after the record type. The time stamp of the header is left out.         *)

\* r.get(k)
RowGet(r, k) == IF k \in DOMAIN r THEN r[k] ELSE NoText

\* _norm_str(v)
_norm_str(v) == IF v = NoText THEN <<>> ELSE Strip(v)

\* _norm_str(r.get("STATUS") or "Normal")
StatusOf(r) ==
    IF RowGet(r, "STATUS") \in {NoText, <<>>} THEN T_Normal ELSE Strip(RowGet(r, "STATUS"))

\* the ISO branch of _ddmmaaaa unpacks t[:10].split("-") into three names: a
\* ValueError with another number of parts
DdmmRaises(s) ==
    /\ ~(Len(Strip(s)) = 10 /\ Strip(s)[3] = "-" /\ Strip(s)[6] = "-")
    /\ Len(Strip(s)) >= 10 /\ Strip(s)[5] = "-" /\ Strip(s)[8] = "-"
    /\ CountChar(Slice(Strip(s), 0, 10), "-") # 2

\* _ddmmaaaa(s), where it does not raise
_ddmmaaaa(s) ==
    IF Len(Strip(s)) = 10 /\ Strip(s)[3] = "-" /\ Strip(s)[6] = "-" THEN Strip(s)
    ELSE IF Len(Strip(s)) >= 10 /\ Strip(s)[5] = "-" /\ Strip(s)[8] = "-"
         THEN Slice(Strip(s), 8, 10) \o <<"-">> \o Slice(Strip(s), 5, 7) \o <<"-">>
              \o Slice(Strip(s), 0, 4)
    ELSE Strip(s)

Line(rec, row, parts) == [rec |-> rec, row |-> row, parts |-> parts]

_build_3000(r) ==
    << _norm_str(RowGet(r, "NFE")), _norm_str(RowGet(r, "TOMADOR")),
       _ddmmaaaa(_norm_str(RowGet(r, "EMISSAO"))), _norm_str(RowGet(r, "VALOR")),
       _norm_str(RowGet(r, "ALIQ")), _norm_str(RowGet(r, "DISCRIMINACAO")),
       <<"S", "T", "A", "T", "U", "S", "=">> \o StatusOf(r) >>

_build_3020(r) ==
    << _norm_str(RowGet(r, "NFE")), _norm_str(RowGet(r, "INSS")), _norm_str(RowGet(r, "IR")),
       _norm_str(RowGet(r, "PIS")), _norm_str(RowGet(r, "COFINS")),
       _norm_str(RowGet(r, "CSLL")), _norm_str(RowGet(r, "ISS_RET")),
       _norm_str(RowGet(r, "ISS_NORMAL")) >>

_build_3300(r) ==
    << _norm_str(RowGet(r, "NFE")), <<"A", "C", "C", "=">> \o _norm_str(RowGet(r, "ACUMULADOR")) >>

\* the dict _extract_parcelas appends for the element p, out holding n_out
OneParcela(r, p, n_out) ==
    [n |-> IF Strip(p.n) = <<>> THEN IntText(n_out + 1) ELSE Strip(p.n),
     venc |-> IF _ddmmaaaa(_norm_str(p.venc)) = <<>>
              THEN _ddmmaaaa(_norm_str(RowGet(r, "EMISSAO")))
              ELSE _ddmmaaaa(_norm_str(p.venc)),
     valor |-> IF _norm_str(p.valor) = <<>> THEN _norm_str(RowGet(r, "VALOR"))
               ELSE _norm_str(p.valor)]

\* for p in px: try ... out.append(...) except Exception: continue
RECURSIVE ExtractLoop(_, _, _, _)
ExtractLoop(r, px, k, out) ==
    IF k > Len(px) THEN out
    ELSE IF DdmmRaises(_norm_str(px[k].venc)) THEN ExtractLoop(r, px, k + 1, out)
    ELSE ExtractLoop(r, px, k + 1, Append(out, OneParcela(r, px[k], Len(out))))

\* _extract_parcelas without the default installment
_extract_parcelasNoDefault(r) ==
    IF RowGet(r, "PARCELAS") \notin {NoText, <<>>}
    THEN ExtractLoop(r, RowGet(r, "PARCELAS"), 1, <<>>)
    ELSE <<>>

\* _extract_parcelas(r); PARCELAS = <<>> is a list that is absent or empty
_extract_parcelas(r) ==
    IF RowGet(r, "PARCELAS") \notin {NoText, <<>>}
       /\ ExtractLoop(r, RowGet(r, "PARCELAS"), 1, <<>>) # <<>>
    THEN ExtractLoop(r, RowGet(r, "PARCELAS"), 1, <<>>)
    ELSE << [n |-> <<"1">>, venc |-> _ddmmaaaa(_norm_str(RowGet(r, "EMISSAO"))),
             valor |-> _norm_str(RowGet(r, "VALOR"))] >>

_build_3500(r) ==
    [k \in 1..Len(_extract_parcelas(r)) |->
        << _norm_str(RowGet(r, "NFE")), _extract_parcelas(r)[k].n,
           _norm_str(_extract_parcelas(r)[k].venc), _norm_str(_extract_parcelas(r)[k].valor) >>]

\* COLS and the fields zeroed for a cancelled row
COLS ==
    {"TOMADOR", "NFE", "EMISSAO", "VALOR", "ALIQ", "INSS", "IR", "PIS", "COFINS", "CSLL",
     "ISS_RET", "ISS_NORMAL", "DISCRIMINACAO", "STATUS", "ACUMULADOR"}

ZeroedFields == {"VALOR", "ALIQ", "INSS", "IR", "PIS", "COFINS", "CSLL", "ISS_RET", "ISS_NORMAL"}

\* the copy of a row without the zeroing of a cancelled row
NormRowAsStored(r) ==
    [k \in COLS \cup {"PARCELAS"} |->
        IF k = "ACUMULADOR" /\ _norm_str(RowGet(r, k)) = <<>> THEN ExportAcumulador(r)
        ELSE RowGet(r, k)]

\* export_final: rr, the copy of the row that is written
NormRow(r) ==
    [k \in COLS \cup {"PARCELAS"} |->
        IF Lower(StatusOf(r)) = T_cancelada /\ k \in ZeroedFields THEN T_zero
        ELSE IF k = "ACUMULADOR" /\ _norm_str(RowGet(r, k)) = <<>> THEN ExportAcumulador(r)
        ELSE RowGet(r, k)]

\* the lines written for the row at i of the list, rr being its copy
RowLines(i, rr) ==
    << Line("3000", i, _build_3000(rr)), Line("3020", i, _build_3020(rr)),
       Line("3300", i, _build_3300(rr)) >>
    \o [k \in 1..Len(_build_3500(rr)) |-> Line("3500", i, _build_3500(rr)[k])]

RECURSIVE ExportBody(_, _, _)
ExportBody(h, rows, i) ==
    IF i > Len(rows) THEN <<>>
    ELSE RowLines(i, NormRow(h[rows[i]])) \o ExportBody(h, rows, i + 1)

\* export_final(rows): the rows after the call and the lines of the file;
\* total_linhas counts the header, the lines of the rows and the trailer
export_final(h, rows) ==
    [heap |-> h,
     lines |-> << Line("0000", 0, << <<"Q", "T", "D", "=">> \o IntText(Len(rows)) >>) >>
               \o ExportBody(h, rows, 1)
               \o << Line("9999", 0, << <<"L", "I", "N", "H", "A", "S", "=">>
                                        \o IntText(1 + Len(ExportBody(h, rows, 1)) + 1) >>) >>]

\* the lines of the file that _write_line makes with the fields of one
\* record: a line feed inside a field is written as it is
RECURSIVE LineFeeds(_)
LineFeeds(parts) ==
    IF parts = <<>> THEN 0 ELSE CountChar(Head(parts), "\n") + LineFeeds(Tail(parts))

RECURSIVE FileLines(_)
FileLines(lines) ==
    IF lines = <<>> THEN 0 ELSE 1 + LineFeeds(Head(lines).parts) + FileLines(Tail(lines))

\* the rows export_final is called with
D_iso == <<"2", "0", "2", "5", "-", "0", "9", "-", "3", "0">>

D_unsplit == <<"2", "0", "2", "5", "-", "0", "9", "-", "3", "-">>

ExportLists ==
    { <<>>, TwoParcelas,
      \* elements without number, due date and value, and with an ISO date
      << [n |-> <<>>, venc |-> <<>>, valor |-> <<>>],
         [n |-> <<"7">>, venc |-> D_iso, valor |-> T_40] >>,
      \* an element whose due date makes _ddmmaaaa raise
      << [n |-> <<"1">>, venc |-> D_unsplit, valor |-> T_40],
         [n |-> <<"2">>, venc |-> D_dash, valor |-> T_5] >> }

ExportRow(status, valor, emissao, acc, parcelas) ==
    [TOMADOR |-> <<"1", "2">>, NFE |-> <<"1">>, EMISSAO |-> emissao, VALOR |-> valor,
     ALIQ |-> T_5, INSS |-> T_5, IR |-> T_5, PIS |-> T_5, COFINS |-> T_5, CSLL |-> T_5,
     ISS_RET |-> IF acc = T_424 THEN T_5 ELSE T_zero,
     ISS_NORMAL |-> IF acc = T_424 THEN T_zero ELSE T_5,
     DISCRIMINACAO |-> <<"x">>, STATUS |-> status, ACUMULADOR |-> acc,
     PARCELA |-> <<>>, PARCELAS |-> parcelas]

\* a description of one line and one of two lines
ExportTexts == {<<"x">>, <<"a", "\n", "b">>}

ExportShapes ==
    {[ExportRow(status, valor, emissao, acc, parcelas) EXCEPT !.DISCRIMINACAO = discr] :
        status \in {T_Normal, T_Cancelada, <<" ">> \o T_cancelada, <<>>},
        valor \in {T_100, <<" ">> \o T_40},
        emissao \in {D_dash, D_iso},
        acc \in {<<>>, T_424},
        parcelas \in ExportLists,
        discr \in ExportTexts}

\* at most this many rows are exported at once
ExportRows == 2

InitExport ==
    /\ \E n \in 1..ExportRows :
          /\ heap \in [1..n -> IF n = 1 THEN ExportShapes
                               ELSE {s \in ExportShapes :
                                        /\ s.EMISSAO = D_dash /\ s.ACUMULADOR = <<>>
                                        /\ s.VALOR = T_100
                                        /\ s.DISCRIMINACAO = <<"x">>
                                        /\ s.STATUS \in {T_Normal, T_Cancelada}
                                        /\ Len(s.PARCELAS) = 0 \/ s.PARCELAS = TwoParcelas}]
          /\ all_rows = [k \in 1..n |-> k]
          /\ view_rows = [k \in 1..n |-> k]
    /\ ui = [status |-> "Concluido", tot |-> 0, ok |-> 0, fail |-> 0]
    /\ jobs = <<>>
    /\ doneQ = <<>>
    /\ op = NoOp
    /\ typed = {}
    /\ enum = NoEnum
    /\ ServicesIdle

\* export_final(all_rows)
CallExportFinal ==
    /\ op.kind = "none"
    /\ heap' = export_final(heap, all_rows).heap
    /\ op' = [kind |-> "export_final", before |-> heap,
              lines |-> export_final(heap, all_rows).lines]
    /\ UNCHANGED <<all_rows, view_rows, ui, jobs, doneQ, typed, enum, services>>

NextExport == CallExportFinal

SpecExport == InitExport /\ [][NextExport]_vars

-----------------------------------------------------------------------------
(* utils/logs.py and the -LOGIN- handler of panel.py. A dict is a sequence  *)
(* of <<key, value>> pairs in insertion order, keys and values being texts. *)
(* Two runs of the program are followed side by side: they receive the same *)
(* events and the same values in every field of the login dialog except the *)
(* password, and the clock reads the same in both.                          *)

DictHas(d, k) == \E i \in 1..Len(d) : d[i][1] = k

DictSet(d, k, v) ==
    IF DictHas(d, k)
    THEN [i \in 1..Len(d) |-> IF d[i][1] = k THEN <<k, v>> ELSE d[i]]
    ELSE Append(d, <<k, v>>)

RECURSIVE DictUpdate(_, _)
DictUpdate(d, e) ==
    IF e = <<>> THEN d ELSE DictUpdate(DictSet(d, e[1][1], e[1][2]), Tail(e))

DictGet(d, k) == d[CHOOSE i \in 1..Len(d) : d[i][1] = k][2]

_SECRET_KEYS ==
    {<<"p", "a", "s", "s", "w", "o", "r", "d">>, <<"p", "w", "d">>, <<"s", "e", "n", "h", "a">>, <<"s", "e", "c", "r", "e", "t">>, <<"t", "o", "k", "e", "n">>, <<"a", "p", "i", "k", "e", "y">>,
     <<"a", "p", "i", "_", "k", "e", "y">>, <<"k", "e", "y">>}

Masked == <<"*", "*", "*", "*">>

\* every value is a str, which json.dumps serializes
_sanitize_value(k, v) ==
    IF Lower(k) \in _SECRET_KEYS THEN Masked ELSE v

_sanitize_dict(d) == [i \in 1..Len(d) |-> <<d[i][1], _sanitize_value(d[i][1], d[i][2])>>]

\* set_context and add_context are never called: the global context is empty
_CONTEXT == <<>>

LogLevels == {<<"d", "e", "b", "u", "g">>, <<"i", "n", "f", "o">>, <<"w", "a", "r", "n">>, <<"e", "r", "r", "o", "r">>}

\* the record log_emit builds, prints on the sink and returns
log_emit(ts, level, event, fields) ==
    DictUpdate(DictUpdate(<<<<<<"t", "s">>, ts>>,
                            <<<<"l", "e", "v", "e", "l">>, IF Lower(level) \in LogLevels
                                         THEN Lower(level) ELSE <<"i", "n", "f", "o">>>>,
                            <<<<"e", "v", "e", "n", "t">>, event>>>>,
                          _sanitize_dict(_CONTEXT)),
               _sanitize_dict(fields))

\* the dict built by -APPLY- from the fields of the dialog
SybaseCfg(drv, host, port, db, uid, pwd) ==
    <<<<<<"S", "Y", "B", "A", "S", "E", "_", "D", "R", "I", "V", "E", "R">>, drv>>, <<<<"S", "Y", "B", "A", "S", "E", "_", "H", "O", "S", "T">>, host>>,
      <<<<"S", "Y", "B", "A", "S", "E", "_", "P", "O", "R", "T">>, port>>, <<<<"S", "Y", "B", "A", "S", "E", "_", "D", "B">>, db>>,
      <<<<"S", "Y", "B", "A", "S", "E", "_", "U", "I", "D">>, uid>>, <<<<"S", "Y", "B", "A", "S", "E", "_", "P", "W", "D">>, pwd>>,
      <<<<"S", "Y", "B", "A", "S", "E", "_", "D", "S", "N">>, <<>>>>>>

LoginUids == {<<"d", "b", "a">>, <<"e", "x", "t">>}

LoginPasswords == {<<"s", "q", "l">>, <<"s", "3", "n", "h", "a">>}

TestOutcomes == {"ok", "ping_failed", "error"}

\* at most this many -LOGIN- events in a run
MaxLogins == 2

\* _now_iso(): the text of the clock
_now_iso(now) == IntText(now)

InitLogin ==
    /\ PanelIdle
    /\ log = [st |-> "idle", now |-> 0, popup |-> <<"none", "none">>,
              cfg |-> <<<<>>, <<>>>>, out |-> <<<<>>, <<>>>>]
    /\ login = NoLogin
    /\ registry = NoRegistry
    /\ cache = NoCache
    /\ entry = NoEntry

OthersUnchangedByLogin ==
    UNCHANGED <<heap, all_rows, view_rows, ui, jobs, doneQ, op, typed, enum,
                login, registry, cache, entry>>

\* -LOGIN-: _login_dialog opens its modal window
LoginOpen ==
    /\ log.st = "idle"
    /\ log.now < MaxLogins
    /\ log' = [log EXCEPT !.st = "dialog", !.now = @ + 1,
                          !.popup = <<"none", "none">>]
    /\ OthersUnchangedByLogin

\* -TEST- in the dialog: connect and ping answer as the server decides, and
\* the answer is shown in a popup
LoginTest ==
    /\ log.st = "dialog"
    /\ \E o1 \in TestOutcomes, o2 \in TestOutcomes :
          log' = [log EXCEPT !.popup = <<o1, o2>>]
    /\ OthersUnchangedByLogin

\* what the -LOGIN- handler does with the dict the dialog returned
LoginEmit(out, now, cfg) ==
    IF cfg # <<>>
    THEN Append(out, log_emit(_now_iso(now), <<"i", "n", "f", "o">>,
                              <<"l", "o", "g", "i", "n", "_", "e", "m", "p", "r", "e", "s", "a", "_", "a", "p", "l", "i", "c", "a", "d", "o">>, cfg))
    ELSE out

\* -APPLY- in the dialog: the dict becomes the session's G_SYBASE_CFG, the
\* dialog closes and returns it, and the handler logs it
LoginApply ==
    /\ log.st = "dialog"
    /\ \E uid \in LoginUids, p1 \in LoginPasswords, p2 \in LoginPasswords :
          log' = [log EXCEPT
                    !.st = "idle",
                    !.popup = <<"applied", "applied">>,
                    !.cfg = <<SybaseCfg(<<"S", "Q", "L">>, <<"s", "r", "v">>, <<"2", "6", "3", "8">>, <<"d", "b">>, uid, p1),
                              SybaseCfg(<<"S", "Q", "L">>, <<"s", "r", "v">>, <<"2", "6", "3", "8">>, <<"d", "b">>, uid, p2)>>,
                    !.out = <<LoginEmit(log.out[1], log.now,
                                 SybaseCfg(<<"S", "Q", "L">>, <<"s", "r", "v">>, <<"2", "6", "3", "8">>, <<"d", "b">>, uid, p1)),
                              LoginEmit(log.out[2], log.now,
                                 SybaseCfg(<<"S", "Q", "L">>, <<"s", "r", "v">>, <<"2", "6", "3", "8">>, <<"d", "b">>, uid, p2))>>]
    /\ OthersUnchangedByLogin

\* Fechar, or the dialog's window closed: the name G_SYBASE_CFG is local to
\* _login_dialog and was never assigned, so the return statement raises
\* UnboundLocalError, which the event loop logs as excecao_na_ui
LoginFechar ==
    /\ log.st = "dialog"
    /\ log' = [log EXCEPT
                 !.st = "idle",
                 !.popup = <<"error", "error">>,
                 !.out = <<Append(log.out[1],
                              log_emit(_now_iso(log.now), <<"e", "r", "r", "o", "r">>, <<"e", "x", "c", "e", "c", "a", "o", "_", "n", "a", "_", "u", "i">>,
                                       <<<<<<"d", "e", "t", "a", "l", "h", "e">>, <<"U", "n", "b", "o", "u", "n", "d", "L", "o", "c", "a", "l", "E", "r", "r", "o", "r">>>>>>)),
                           Append(log.out[2],
                              log_emit(_now_iso(log.now), <<"e", "r", "r", "o", "r">>, <<"e", "x", "c", "e", "c", "a", "o", "_", "n", "a", "_", "u", "i">>,
                                       <<<<<<"d", "e", "t", "a", "l", "h", "e">>, <<"U", "n", "b", "o", "u", "n", "d", "L", "o", "c", "a", "l", "E", "r", "r", "o", "r">>>>>>))>>]
    /\ OthersUnchangedByLogin

NextLogin ==
    \/ LoginOpen
    \/ LoginTest
    \/ LoginApply
    \/ LoginFechar

SpecLogin == InitLogin /\ [][NextLogin]_vars

-----------------------------------------------------------------------------
(* Typing a due date: the field -V- of the installment dialog and the field *)
(* -EDT-PARC- of the editor, key by key. Each key event passes the field    *)
(* through _mask_date_typing; a text put in the field without a key event   *)
(* (pasted with the mouse) stays as it is until the next key. One row is    *)
(* loaded, visible and selected.                                            *)

EntryKeys == {"1", "2", "-"}

EntryPasted == {D_dash, D_slash}

InitEntry ==
    /\ heap = <<DeriverRow(T_Normal, T_410, T_zero, <<>>)>>
    /\ all_rows = <<1>>
    /\ view_rows = <<1>>
    /\ ui = [status |-> "Concluido", tot |-> 1, ok |-> 1, fail |-> 0]
    /\ jobs = <<>>
    /\ doneQ = <<>>
    /\ op = NoOp
    /\ typed = {}
    /\ enum = NoEnum
    /\ log = NoLog
    /\ login = NoLogin
    /\ registry = NoRegistry
    /\ cache = NoCache
    /\ \E w \in {"dialog", "editor"} :
          entry = [where |-> w, field |-> <<>>, result |-> "typing", venc |-> <<>>]

OthersUnchangedByEntry ==
    UNCHANGED <<all_rows, view_rows, ui, jobs, doneQ, op, typed, enum,
                log, login, registry, cache>>

\* the dialog is closed once it has returned a date
EntryOpen == entry.where = "editor" \/ entry.result # "accepted"

\* the events -V- and -EDT-PARC-: a key typed at the end of the field
EntryKey(c) ==
    /\ EntryOpen
    /\ entry' = [entry EXCEPT !.field = _mask_date_typing(entry.field \o <<c>>),
                              !.result = "typing"]
    /\ UNCHANGED heap
    /\ OthersUnchangedByEntry

\* a text put in the field with no key event
EntryPaste(text) ==
    /\ EntryOpen
    /\ entry' = [entry EXCEPT !.field = text, !.result = "typing"]
    /\ UNCHANGED heap
    /\ OthersUnchangedByEntry

\* -OK- with the date the dialog parsed: the dialog returns it and the
\* -GERA-PARC- handler applies it to the visible rows
DialogReturn(dlg) ==
    IF dlg.ok
    THEN /\ entry' = [entry EXCEPT !.result = "accepted", !.venc = dlg.venc]
         /\ heap' = GeraParcBody(heap, all_rows, view_rows, dlg.venc).heap
    ELSE \* "Data invalida. Use o formato dd/mm/aaaa.": the dialog stays open
         /\ entry' = [entry EXCEPT !.result = "rejected"]
         /\ UNCHANGED heap

DialogOk ==
    /\ entry.where = "dialog"
    /\ EntryOpen
    /\ DialogReturn(_parcelas_dialog(entry.field))
    /\ OthersUnchangedByEntry

\* -EDT-APPLY- with the row selected and no accumulator typed
EditorApplied(parc) ==
    IF parc.ok
    THEN /\ entry' = [entry EXCEPT !.result = "accepted", !.venc = parc.venc]
         /\ heap' = EditorLoop(heap, all_rows, view_rows, parc.venc, <<>>)
    ELSE \* "PARCELA invalida. Use dd/mm/aaaa (ex.: 30/09/2025)."
         /\ entry' = [entry EXCEPT !.result = "rejected"]
         /\ UNCHANGED heap

EditorApply ==
    /\ entry.where = "editor"
    /\ EditorApplied(EditorParcela(entry.field))
    /\ OthersUnchangedByEntry

NextEntry ==
    \/ \E c \in EntryKeys : EntryKey(c)
    \/ \E text \in EntryPasted : EntryPaste(text)
    \/ DialogOk
    \/ EditorApply

SpecEntry == InitEntry /\ [][NextEntry]_vars

-----------------------------------------------------------------------------
(* ui/login_baixa_integrada.py: the station lookup of the login window.     *)
(* The UI thread handles the events of the window one at a time; each       *)
(* change of the user field starts a thread _job, which sleeps, compares    *)
(* its text with last_user_text under est_lock, queries the station outside *)
(* the lock and posts the answer as a -TIMER- event. The table of stations  *)
(* does not change while the window is open. A company is selected in the   *)
(* combo throughout.                                                        *)

\* str.upper() on the letters that occur in the model's texts
UpperChar(c) ==
    CASE c = "a" -> "A" [] c = "b" -> "B" [] c = "c" -> "C" [] c = "d" -> "D"
      [] c = "i" -> "I" [] c = "x" -> "X" [] OTHER -> c

Upper(s) == [i \in 1..Len(s) |-> UpperChar(s[i])]

\* the station the BAIXA database has for a user, NoText if it has none
EstacaoDe(usuario) ==
    CASE usuario = <<"A">> -> <<"1", "9">>
      [] usuario = <<"A", "B">> -> <<"7">>
      [] OTHER -> NoText

\* buscar_estacao: None for an empty user, for a user without station and
\* when the query fails (db_ok = FALSE)
buscar_estacao(usuario, db_ok) ==
    IF usuario = <<>> THEN NoText
    ELSE IF ~db_ok THEN NoText
    ELSE EstacaoDe(Upper(usuario))

\* est or ""
OrEmpty(est) == IF est = NoText THEN <<>> ELSE est

\* the texts of the user field after a change
UserTexts == {<<"a">>, <<"a", "b">>, <<"A", " ">>}

default_usuario == <<"A">>

\* at most this many changes of the user field
MaxKeys == 2

\* schedule_station_lookup(text_now): last_user_text and the thread started
Scheduled(l, text_now) ==
    [l EXCEPT !.last_user_text = Upper(Strip(text_now)),
              !.threads = Append(@, [expected_text |-> Upper(Strip(text_now)),
                                     pc |-> "sleeping", est |-> <<>>])]

InitStation ==
    /\ PanelIdle
    /\ log = NoLog
    /\ registry = NoRegistry
    /\ cache = NoCache
    /\ entry = NoEntry
    /\ login = Scheduled([st |-> "open", usuario |-> default_usuario, keys |-> 0,
                          last_user_text |-> <<>>, threads |-> <<>>,
                          events |-> <<>>, estacao |-> <<>>, quiet |-> FALSE,
                          payload |-> [usuario |-> <<>>, estacao |-> <<>>]],
                         default_usuario)

OthersUnchangedByStation ==
    UNCHANGED <<heap, all_rows, view_rows, ui, jobs, doneQ, op, typed, enum,
                log, registry, cache, entry>>

\* -USUARIO-: the user field changed
KeyUsr(text) ==
    /\ login.st = "open"
    /\ login.keys < MaxKeys
    /\ text # login.usuario
    /\ login' = Scheduled([login EXCEPT !.usuario = text, !.keys = @ + 1], text)
    /\ OthersUnchangedByStation

\* _job after time.sleep(0.30): the comparison under est_lock
JobCheck(j) ==
    /\ login.threads[j].pc = "sleeping"
    /\ login' = [login EXCEPT !.threads[j].pc =
                    IF login.threads[j].expected_text # login.last_user_text
                    THEN "aborted" ELSE "querying"]
    /\ OthersUnchangedByStation

\* _job: buscar_estacao answers and the answer is posted to the window; a
\* closed window takes no event
JobPost(j) ==
    /\ login.threads[j].pc = "querying"
    /\ \E db_ok \in BOOLEAN :
          login' = [login EXCEPT
                      !.threads[j].pc = "done",
                      !.threads[j].est =
                          OrEmpty(buscar_estacao(login.threads[j].expected_text, db_ok)),
                      !.events = IF login.st = "open"
                                 THEN Append(@, OrEmpty(buscar_estacao(
                                                   login.threads[j].expected_text, db_ok)))
                                 ELSE @]
    /\ OthersUnchangedByStation

\* -TIMER-: the answer of a lookup is written to the station field
Timer ==
    /\ login.st = "open"
    /\ login.events # <<>>
    /\ login' = [login EXCEPT !.estacao = Head(login.events), !.events = Tail(@)]
    /\ OthersUnchangedByStation

\* the payload of -OK- with the station est
Payload(usuario, est) == [usuario |-> usuario, estacao |-> est]

\* the window is open, every lookup thread has finished and every -TIMER-
\* event was handled
StationQuiet ==
    /\ login.st = "open"
    /\ login.events = <<>>
    /\ \A j \in 1..Len(login.threads) : login.threads[j].pc \in {"aborted", "done"}

\* -OK- (Entrar): an empty user is refused with a popup; an empty station
\* field is looked up on the spot. quiet (history): no lookup was under way
Entrar ==
    /\ login.st = "open"
    /\ Upper(Strip(login.usuario)) # <<>>
    /\ \E db_ok \in BOOLEAN :
          login' = [login EXCEPT
                      !.st = "returned",
                      !.quiet = StationQuiet,
                      !.events = <<>>,
                      !.payload = Payload(Upper(Strip(login.usuario)),
                                     IF Strip(login.estacao) # <<>>
                                     THEN Strip(login.estacao)
                                     ELSE OrEmpty(buscar_estacao(
                                             Upper(Strip(login.usuario)), db_ok)))]
    /\ OthersUnchangedByStation

\* -CANCEL-, or the window closed
Cancelar ==
    /\ login.st = "open"
    /\ login' = [login EXCEPT !.st = "cancelled", !.events = <<>>]
    /\ OthersUnchangedByStation

NextStation ==
    \/ \E text \in UserTexts : KeyUsr(text)
    \/ \E j \in 1..Len(login.threads) : JobCheck(j)
    \/ \E j \in 1..Len(login.threads) : JobPost(j)
    \/ Timer
    \/ Entrar
    \/ Cancelar

SpecStation == InitStation /\ [][NextStation]_vars

-----------------------------------------------------------------------------
(* infra/oracle.py: the pool registry. get_pool is called by the UI thread  *)
(* and by the station-lookup threads, through run_query; _PoolRegistry.get  *)
(* holds no lock, and create_pool opens connections, so a thread can be     *)
(* suspended between the test "prof in self._pools" and the assignment. A   *)
(* pool is named by its profile and the number of its creation.             *)

\* the profile names callers pass
PoolProfiles == {<<"B", "A", "I", "X", "A">>, <<"b", "a", "i", "x", "a">>, <<"C", "A", "D">>}

\* the threads that call get_pool
PoolThreads == 2

\* at most this many calls of get_pool in a run
MaxGets == 4

\* the number of the pool the dict holds for prof, 0 if prof is not in it
PoolOf(pools, prof) == IF prof \in DOMAIN pools THEN pools[prof] ELSE 0

\* self._pools[prof] = pool
PoolSet(pools, prof, pool) ==
    [k \in DOMAIN pools \cup {prof} |-> IF k = prof THEN pool ELSE pools[k]]

InitPools ==
    /\ PanelIdle
    /\ log = NoLog
    /\ login = NoLogin
    /\ cache = NoCache
    /\ entry = NoEntry
    /\ registry = [_pools |-> <<>>, made |-> <<>>, gets |-> 0, got |-> {},
                   calls |-> [t \in 1..PoolThreads |-> [pc |-> "idle", prof |-> <<>>]]]

OthersUnchangedByPools ==
    UNCHANGED <<heap, all_rows, view_rows, ui, jobs, doneQ, op, typed, enum,
                log, login, cache, entry>>

\* get(profile) up to the test: the pool of the profile is returned if the
\* dict has one, else the thread goes on to create one
GetPoolTest(t, profile) ==
    /\ registry.calls[t].pc = "idle"
    /\ registry.gets < MaxGets
    /\ registry' =
          IF Upper(profile) \in DOMAIN registry._pools
          THEN [registry EXCEPT
                  !.gets = @ + 1,
                  !.got = @ \cup {<<Upper(profile), registry._pools[Upper(profile)]>>}]
          ELSE [registry EXCEPT
                  !.gets = @ + 1,
                  !.calls[t] = [pc |-> "creating", prof |-> Upper(profile)]]
    /\ OthersUnchangedByPools

\* the registry after create_pool returned the n-th pool of the profile to
\* thread t, which stores it and returns it
Created(r, t, n) ==
    [r EXCEPT !._pools = PoolSet(@, r.calls[t].prof, n),
              !.made = PoolSet(@, r.calls[t].prof, n),
              !.got = @ \cup {<<r.calls[t].prof, n>>},
              !.calls[t] = [pc |-> "idle", prof |-> <<>>]]

\* create_pool returns, or raises and the call is left with nothing stored
GetPoolCreate(t, ok) ==
    /\ registry.calls[t].pc = "creating"
    /\ registry' =
          IF ok THEN Created(registry, t, PoolOf(registry.made, registry.calls[t].prof) + 1)
          ELSE [registry EXCEPT !.calls[t] = [pc |-> "idle", prof |-> <<>>]]
    /\ OthersUnchangedByPools

NextPools ==
    \/ \E t \in 1..PoolThreads, profile \in PoolProfiles : GetPoolTest(t, profile)
    \/ \E t \in 1..PoolThreads, ok \in BOOLEAN : GetPoolCreate(t, ok)

SpecPools == InitPools /\ [][NextPools]_vars

-----------------------------------------------------------------------------
(* services/empresa_service.py: listar_empresas and its cache, with         *)
(* fetch_empresas of infra/oracle.py. The clock counts seconds. The table   *)
(* of companies changes between calls; a company is its id and its name,    *)
(* the CNPJ column being left out. A call of a function binds its arguments *)
(* to the parameters of the def before the body runs, and raises TypeError  *)
(* for a keyword the def does not have.                                     *)
-----------------------------------------------------------------------------

\* the seconds a cached list stays fresh (EMPRESAS_TTL), scaled to the clock
_TTL == 2

MaxClock == 5

MaxCalls == 3

N_c == <<"c">>

N_E == <<"E">>

N_L == <<"L">>

\* the rows TABCADASTROEMPRESAS can hold, in the order the query returns them
CompanyTables ==
    { <<>>,
      <<[id |-> <<"1">>, nome |-> N_E]>>,
      <<[id |-> <<"1">>, nome |-> N_E], [id |-> <<"2">>, nome |-> N_L],
        [id |-> <<"3">>, nome |-> N_c]>> }

\* the values listar_empresas receives for query
Queries == {NoText, <<"x">>}

\* the parameters of def fetch_empresas
FetchParams == {"profile"}

\* the keywords of the call _oracle_fetch_empresas("CAD", query=query)
FetchKeywords == {"query"}

\* _row_to_empresa on the columns id and nome
_row_to_empresa(row) == [id |-> Strip(row.id), nome |-> Strip(row.nome)]

\* empresas.sort(key=lambda e: (e.nome or "").upper())
SortedEmpresas(empresas) ==
    SortedByKey(empresas, [i \in 1..Len(empresas) |-> Upper(empresas[i].nome)])

\* _cache_get() is not None
_cache_get(c) == c.data /= <<>> /\ (c.now - c.ts) < _TTL

\* the call the UI makes has not been made yet
NoCall ==
    [called |-> FALSE, force |-> FALSE, query |-> NoText, fresh |-> FALSE,
     asked |-> FALSE, failed |-> FALSE, result |-> <<>>, before |-> <<>>]

InitCache ==
    /\ PanelIdle
    /\ log = NoLog
    /\ login = NoLogin
    /\ registry = NoRegistry
    /\ entry = NoEntry
    /\ cache = [st |-> "on", data |-> <<>>, ts |-> 0, now |-> 0,
                table |-> <<>>, calls |-> 0, last |-> NoCall]

OthersUnchangedByCache ==
    UNCHANGED <<heap, all_rows, view_rows, ui, jobs, doneQ, op, typed, enum,
                log, login, registry, entry>>

\* a second passes
Clock ==
    /\ cache.now < MaxClock
    /\ cache' = [cache EXCEPT !.now = @ + 1]
    /\ OthersUnchangedByCache

\* companies are registered or deactivated in the database
Cadastro(rows) ==
    /\ rows /= cache.table
    /\ cache' = [cache EXCEPT !.table = rows]
    /\ OthersUnchangedByCache

\* the cache after a call that returned the cached list
Cached(c, force, query) ==
    [c EXCEPT !.calls = @ + 1,
              !.last = [called |-> TRUE, force |-> force, query |-> query,
                        fresh |-> TRUE, asked |-> FALSE, failed |-> FALSE,
                        result |-> c.data, before |-> c.data]]

\* the cache after a call whose fetch raised: the error is logged and []
\* returned; asked tells whether the query reached the database
Failed(c, force, query, asked) ==
    [c EXCEPT !.calls = @ + 1,
              !.last = [called |-> TRUE, force |-> force, query |-> query,
                        fresh |-> _cache_get(c), asked |-> asked, failed |-> TRUE,
                        result |-> <<>>, before |-> c.data]]

\* the cache after a call whose fetch returned the rows of the table
Fetched(c, force, query) ==
    [c EXCEPT !.calls = @ + 1,
              !.data = SortedEmpresas([i \in 1..Len(c.table) |-> _row_to_empresa(c.table[i])]),
              !.ts = c.now,
              !.last = [called |-> TRUE, force |-> force, query |-> query,
                        fresh |-> _cache_get(c), asked |-> TRUE, failed |-> FALSE,
                        result |-> SortedEmpresas([i \in 1..Len(c.table) |->
                                                     _row_to_empresa(c.table[i])]),
                        before |-> c.data]]

\* listar_empresas(force, query); ok tells whether the database answers
listar_empresas(force, query, ok) ==
    /\ cache.calls < MaxCalls
    /\ cache' =
          IF ~force /\ _cache_get(cache) THEN Cached(cache, force, query)
          ELSE IF ~(FetchKeywords \subseteq FetchParams)
               THEN Failed(cache, force, query, FALSE)
          ELSE IF ~ok THEN Failed(cache, force, query, TRUE)
          ELSE Fetched(cache, force, query)
    /\ OthersUnchangedByCache

NextCache ==
    \/ Clock
    \/ \E rows \in CompanyTables : Cadastro(rows)
    \/ \E force \in BOOLEAN, query \in Queries, ok \in BOOLEAN :
          listar_empresas(force, query, ok)

SpecCache == InitCache /\ [][NextCache]_vars

-----------------------------------------------------------------------------
(* Properties                                                              *)

Accumulator(r) == Strip(r.ACUMULADOR)

\* no other row of the loaded batch has the (NFE, TOMADOR, EMISSAO) of row id
UniqueKey(id) == \A k \in DOMAIN heap : Key(heap[k]) = Key(heap[id]) => k = id

\* the code a non-cancelled row is said to get when an installment is recorded
RecordTarget(r) ==
    IF Accumulator(r) = T_410 THEN T_411
    ELSE IF Accumulator(r) = T_424 THEN T_425
    ELSE IF _brl_to_decimal(r.ISS_RET).num > 0 THEN T_425
    ELSE T_411

\* what the enumerator has yielded of an input: the error strings and the
\* document numbers of the rows a run is said to hold for it
RECURSIVE ExpectedErrors(_)
ExpectedErrors(items) ==
    IF items = <<>> THEN <<>>
    ELSE LET last == items[Len(items)]
             before == ExpectedErrors(SubSeq(items, 1, Len(items) - 1))
         IN  IF last.doc.parses THEN before
             ELSE Append(before, last.name \o <<":", " ">> \o last.doc.err)

RECURSIVE ExpectedNFEs(_)
ExpectedNFEs(items) ==
    IF items = <<>> THEN <<>>
    ELSE LET last == items[Len(items)]
             before == ExpectedNFEs(SubSeq(items, 1, Len(items) - 1))
         IN  IF last.doc.parses THEN Append(before, last.doc.NFE) ELSE before

Yielded(job) == SubSeq(Inputs[job.input], 1, job.i)

\* C1: a due date that does not parse makes aplicar_parcelas_e_acumuladores
\* raise the invalid-date error and leave every row exactly as it was
C1_InvalidDateLeavesRows ==
    [][(op'.kind = "aplicar_parcelas_e_acumuladores" /\ parse_dd_mm_aaaa(op'.venc) = None)
          => (op'.raised /\ heap' = heap)]_vars

\* C2: generate-installments and the editor's apply never change the
\* ACUMULADOR, PARCELA or PARCELAS of a row whose STATUS is Cancelada
C2_CancelledRowsUntouched ==
    [][op'.kind \in {"gera", "edit"}
          => \A id \in DOMAIN heap :
                _is_cancelada(heap[id])
                   => /\ heap'[id].ACUMULADOR = heap[id].ACUMULADOR
                      /\ heap'[id].PARCELA = heap[id].PARCELA
                      /\ heap'[id].PARCELAS = heap[id].PARCELAS]_vars

\* C3: recording an installment on a selected non-cancelled row, by
\* generate-installments or by the editor without a forced code, takes its
\* accumulator from 410 to 411, from 424 to 425, and from empty to 425 when
\* the retained ISS is positive and to 411 otherwise
C3_RecordingMapsAccumulator ==
    [][((op'.kind = "gera" /\ ~op'.raised)
          \/ (op'.kind = "edit" /\ op'.venc # <<>> /\ op'.forced = <<>>))
          => \A id \in SeqRange(op'.rows) :
                (~_is_cancelada(heap[id]) /\ Accumulator(heap[id]) \in {T_410, T_424, <<>>})
                   => heap'[id].ACUMULADOR = RecordTarget(heap[id])]_vars

\* C4: clearing the due date of a row (the editor applied with an empty date
\* and no forced code) takes 411 back to 410 and 425 back to 424; stated for
\* the non-cancelled rows whose key no other row shares
C4_ClearingReversesAccumulator ==
    [][(op'.kind = "edit" /\ op'.venc = <<>> /\ op'.forced = <<>>)
          => \A id \in SeqRange(op'.rows) :
                (~_is_cancelada(heap[id]) /\ UniqueKey(id))
                   => /\ Accumulator(heap[id]) = T_411 => heap'[id].ACUMULADOR = T_410
                      /\ Accumulator(heap[id]) = T_425 => heap'[id].ACUMULADOR = T_424]_vars

\* C5: applying the due date 30/09/2025 succeeds, and a non-cancelled row of
\* the list with accumulator 410 and no installments becomes 411 with the one
\* installment n = 1, venc = the date applied, valor = the row's VALOR
C5_SlashDateApplies ==
    [][(op'.kind = "aplicar_parcelas_e_acumuladores" /\ op'.venc = D_slash)
          => /\ ~op'.raised
             /\ \A id \in SeqRange(op'.rows) :
                   (~_is_cancelada(heap[id]) /\ Accumulator(heap[id]) = T_410
                                             /\ heap[id].PARCELAS = <<>>)
                      => /\ heap'[id].ACUMULADOR = T_411
                         /\ heap'[id].PARCELAS =
                               <<[n |-> <<"1">>, venc |-> D_slash, valor |-> heap[id].VALOR]>>]_vars

\* C6: applying a due date leaves the installment list of a row that already
\* has more than one installment as it was
C6_MultiInstallmentListKept ==
    [][op'.kind \in {"aplicar_parcelas_uma", "aplicar_parcelas_e_acumuladores"}
          => \A id \in SeqRange(op'.rows) :
                Len(heap[id].PARCELAS) > 1 => heap'[id].PARCELAS = heap[id].PARCELAS]_vars

C8_AccumulatorTellsInstallment ==
    typed = {}
       => \A id \in DOMAIN heap :
             ~_is_cancelada(heap[id])
                => /\ ExportAcumulador(heap[id]) = Accumulator(heap[id])
                   /\ Accumulator(heap[id]) \in {T_411, T_425}
                         => (heap[id].PARCELA # <<>> \/ heap[id].PARCELAS # <<>>)
                   /\ Accumulator(heap[id]) \in {T_410, T_424}
                         => ~(heap[id].PARCELA # <<>> /\ heap[id].PARCELAS # <<>>)

\* C9: the counts of a run always have total equal to the number of entries
\* the enumerator has yielded and ok + fail = total; a run that returns has
\* counted every entry of its input
C9_CountsMatchEntries ==
    \A j \in 1..Len(jobs) :
       /\ jobs[j].counts.total = jobs[j].i
       /\ jobs[j].counts.ok + jobs[j].counts.fail = jobs[j].counts.total
       /\ jobs[j].st = "ok" => jobs[j].counts.total = Len(Inputs[jobs[j].input])

\* a run returned with successes and failures among its entries
C9_Witness ==
    \E j \in 1..Len(jobs) :
       jobs[j].st = "ok" /\ jobs[j].counts.ok > 0 /\ jobs[j].counts.fail > 0

\* C10: a run holds exactly one "<name>: <error>" string for each entry so far
\* that did not parse, in order, counts each under fail, holds rows for the
\* other entries only, and returns only after the last entry of its input
C10_OneErrorPerFailedEntry ==
    \A j \in 1..Len(jobs) :
       jobs[j].st \in {"running", "ok"}
          => /\ jobs[j].errors = ExpectedErrors(Yielded(jobs[j]))
             /\ jobs[j].counts.fail = Len(jobs[j].errors)
             /\ [k \in 1..Len(jobs[j].rows) |-> jobs[j].rows[k].NFE] = ExpectedNFEs(Yielded(jobs[j]))
             /\ jobs[j].st = "ok" => jobs[j].i = Len(Inputs[jobs[j].input])

\* a run returned with the error of its second entry and the row of the third
C10_Witness ==
    \E j \in 1..Len(jobs) :
       /\ jobs[j].st = "ok"
       /\ jobs[j].errors = << <<"b", ":", " ", "e", "r", "r">> >>
       /\ Len(jobs[j].rows) = 2
       /\ jobs[j].rows[2].NFE = <<"2">>

\* C11: a source of a directory input that cannot be read while the
\* enumerator is consumed does not abort the run: a running run only ever
\* goes on or returns its rows, counts and errors
C11_SourceFailureDoesNotAbort ==
    [][\A j \in 1..Len(jobs) :
          jobs[j].st = "running" => jobs'[j].st \in {"running", "ok"}]_vars

\* the rows a run is said to hold for the entries yielded so far
RECURSIVE ExpectedRows(_)
ExpectedRows(items) ==
    IF items = <<>> THEN <<>>
    ELSE IF items[Len(items)].doc.parses
         THEN Append(ExpectedRows(SubSeq(items, 1, Len(items) - 1)),
                     ParsedRow(items[Len(items)].doc))
         ELSE ExpectedRows(SubSeq(items, 1, Len(items) - 1))

\* C12: the rows of a run are the rows of the entries that parsed, one per
\* entry, in the order the enumerator yielded the entries; an entry that
\* failed leaves no gap and no reordering
C12_RowsInEnumeratorOrder ==
    \A j \in 1..Len(jobs) :
       jobs[j].st \in {"running", "ok"} => jobs[j].rows = ExpectedRows(Yielded(jobs[j]))

\* a run returned the rows of its first and third entries, in that order,
\* the second entry having failed
C12_Witness ==
    \E j \in 1..Len(jobs) :
       /\ jobs[j].st = "ok"
       /\ jobs[j].counts.fail = 1
       /\ [k \in 1..Len(jobs[j].rows) |-> jobs[j].rows[k].DISCRIMINACAO] = << <<"x">>, <<"y">> >>

\* the names the generator has yielded so far
YieldedNames == [k \in 1..Len(enum.out) |-> enum.out[k].name]

IsPrefix(s, t) == Len(s) <= Len(t) /\ SubSeq(t, 1, Len(s)) = s

\* C13 as stated: list_entries returns exactly the names iter_xml_bytes
\* yields for the same input, and fails on exactly the inputs on which
\* iter_xml_bytes fails
C13_ListingEqualsEnumeration ==
    (enum.listed.called /\ enum.st \in {"finished", "raised"})
       => /\ enum.listed.ok <=> enum.st = "finished"
          /\ enum.listed.ok => enum.listed.names = YieldedNames

\* C13, amended: whenever iter_xml_bytes runs to its end, list_entries
\* succeeds and returns exactly the names yielded, in order; whenever
\* list_entries succeeds, the names yielded so far are a prefix of its list;
\* and list_entries fails only on inputs on which iter_xml_bytes fails too
C13_ListingEqualsCompleteEnumeration ==
    enum.listed.called
       => /\ enum.st = "finished"
                => enum.listed.ok /\ enum.listed.names = YieldedNames
          /\ enum.listed.ok => IsPrefix(YieldedNames, enum.listed.names)
          /\ ~enum.listed.ok => enum.st # "finished"

\* a directory with loose files and an archive was listed and enumerated to
\* the end
C13_Witness ==
    /\ enum.tree # 0
    /\ enum.listed.called
    /\ enum.listed.ok
    /\ enum.st = "finished"
    /\ Len(enum.listed.names) = 4

\* str(a).lower() <= str(b).lower()
LowerLeq(a, b) == ~StrLess(Lower(b), Lower(a))

\* the loose XML files of a directory input
LooseXml(tree) ==
    IF tree.kind = "dir"
    THEN {tree.files[k].path : k \in {i \in 1..Len(tree.files) : EndsWith(tree.files[i].path, X_xml)}}
    ELSE {}

\* every loose file has been yielded once an archive entry has been, or the
\* enumeration has ended
LooseFirst ==
    ((\E i \in 1..Len(enum.out) : enum.out[i].k # 0) \/ enum.st = "finished")
       => LooseXml(Trees[enum.tree]) \subseteq {enum.out[i].src : i \in 1..Len(enum.out)}

\* C14 as stated: every loose file comes, in ascending lower-cased path
\* order, before any archive entry, and the archive entries come sorted by
\* the name of their archive and, within an archive, by entry name
C14_SortedByArchiveName ==
    enum.tree # 0
       => /\ LooseFirst
          /\ \A i, j \in 1..Len(enum.out) :
                i < j => /\ enum.out[j].k = 0 => enum.out[i].k = 0
                         /\ (enum.out[i].k = 0 /\ enum.out[j].k = 0)
                               => LowerLeq(enum.out[i].src, enum.out[j].src)
                         /\ (enum.out[i].k # 0 /\ enum.out[j].k # 0)
                               => /\ LowerLeq(PathName(enum.out[i].src), PathName(enum.out[j].src))
                                  /\ enum.out[i].src = enum.out[j].src
                                        => LowerLeq(enum.out[i].name, enum.out[j].name)

\* C14, amended: the same, with the archive entries sorted by the
\* lower-cased path of their archive, not by its name
C14_SortedByArchivePath ==
    enum.tree # 0
       => /\ LooseFirst
          /\ \A i, j \in 1..Len(enum.out) :
                i < j => /\ enum.out[j].k = 0 => enum.out[i].k = 0
                         /\ (enum.out[i].k = 0 /\ enum.out[j].k = 0)
                               => LowerLeq(enum.out[i].src, enum.out[j].src)
                         /\ (enum.out[i].k # 0 /\ enum.out[j].k # 0)
                               => /\ LowerLeq(enum.out[i].src, enum.out[j].src)
                                  /\ enum.out[i].src = enum.out[j].src
                                        => LowerLeq(enum.out[i].name, enum.out[j].name)

\* the entries of two archives in different sub-directories were yielded,
\* the archive of the first sub-directory first
C14_Witness ==
    /\ enum.tree # 0
    /\ enum.st = "finished"
    /\ Len(enum.out) = 2
    /\ enum.out[1].src = P_a_n_zip
    /\ enum.out[2].src = P_c_m_zip

\* C15: within one enumeration no two yielded entries carry the same name
C15_NamesAreUnique ==
    enum.tree # 0
       => \A i, j \in 1..Len(enum.out) : enum.out[i].name = enum.out[j].name => i = j

\* C16: at most one archive is open at any time, and none is open once the
\* consumer has stopped consuming or the generator has ended
C16_NoHandleAfterStop ==
    enum.tree # 0
       => /\ enum.peak <= 1
          /\ Cardinality(enum.open) <= 1
          /\ (enum.consumer = "stopped" \/ enum.st \in {"finished", "raised", "closed"})
                => enum.open = {}

SameValue(a, b) == a.num * Pow10(b.scale) = b.num * Pow10(a.scale)

\* C19: parsing the canonical display form of a value the normalizer
\* produced from an input string gives the same value back
C19_RoundTrip ==
    op.kind = "reparsed" => SameValue(op.again, op.value)

\* the lines of the last export written for the row at i of the list
LinesOf(i, rec) == SelectSeq(op.lines, LAMBDA l : l.row = i /\ l.rec = rec)

IsCancelledRow(r) == Lower(Strip(r.STATUS)) = T_cancelada

\* C17: the records export_final writes for a cancelled row show VALOR,
\* ALIQ, INSS, IR, PIS, COFINS, CSLL, ISS_RET and ISS_NORMAL as "0,00"
\* whatever the row stores, and the rows passed are as they were
C17_CancelledExportedAsZero ==
    op.kind = "export_final"
       => /\ heap = op.before
          /\ \A i \in 1..Len(all_rows) :
                IsCancelledRow(op.before[all_rows[i]])
                   => /\ Len(LinesOf(i, "3000")) = 1
                      /\ LinesOf(i, "3000")[1].parts[4] = T_zero
                      /\ LinesOf(i, "3000")[1].parts[5] = T_zero
                      /\ Len(LinesOf(i, "3020")) = 1
                      /\ \A f \in 2..8 : LinesOf(i, "3020")[1].parts[f] = T_zero

\* a cancelled row that stores 100,00 as VALOR and 5,00 as retained ISS was
\* exported
C17_Witness ==
    /\ op.kind = "export_final"
    /\ \E i \in 1..Len(all_rows) :
          /\ heap[all_rows[i]].STATUS = T_Cancelada
          /\ heap[all_rows[i]].VALOR = T_100
          /\ heap[all_rows[i]].ISS_RET = T_5

\* the installments of a list that export_final writes: those whose due date
\* can be normalised
Writable(px) == SelectSeq(px, LAMBDA p : ~DdmmRaises(Strip(p.venc)))

C21_LogsIndependentOfPassword ==
    log.st # "none" => log.out[1] = log.out[2]

\* C22: applying the same due date a second time to the same list, through
\* aplicar_parcelas_e_acumuladores, leaves every row as the first application
\* left it (accumulator and installment list included) and reports 0
\* accumulators adjusted
C22_RepeatedApplyIsStable ==
    [][(op'.kind = "aplicar_parcelas_e_acumuladores" /\ op'.again)
          => (heap' = heap /\ op'.a = 0)]_vars

\* a second application that succeeded on a row it gives an installment to
C22_Witness ==
    /\ op.kind = "aplicar_parcelas_e_acumuladores"
    /\ op.again
    /\ ~op.raised
    /\ op.p >= 1
    /\ \E i \in 1..Len(op.rows) :
          /\ ~_is_cancelada(heap[op.rows[i]])
          /\ heap[op.rows[i]].ACUMULADOR \in {T_411, T_425}
          /\ heap[op.rows[i]].PARCELAS =
                <<[n |-> <<"1">>, venc |-> op.venc, valor |-> heap[op.rows[i]].VALOR]>>

\* a calendar-valid date written dd/mm/aaaa
IsSlashDate(s) ==
    /\ Len(s) = 10
    /\ s[3] = "/" /\ s[6] = "/"
    /\ AllDigits(Slice(s, 0, 2)) /\ AllDigits(Slice(s, 3, 5)) /\ AllDigits(Slice(s, 6, 10))
    /\ ValidDate(DigitsValue(Slice(s, 6, 10)), DigitsValue(Slice(s, 3, 5)),
                 DigitsValue(Slice(s, 0, 2)))

\* C23: a calendar-valid due date in the form dd/mm/aaaa, as the typing mask
\* leaves it in the field, is accepted by the installment dialog and by the
\* editor: neither reports an invalid date
C23_MaskedDateAccepted ==
    (entry.where # "none" /\ entry.result # "typing" /\ IsSlashDate(entry.field))
       => entry.result = "accepted"

\* C24: in the file export_final writes, LINHAS of the 9999 trailer is the
\* number of lines of the file and QTD of the 0000 header is the number of
\* rows
C24_TrailerCountsLines ==
    op.kind = "export_final"
       => /\ op.lines[1].rec = "0000"
          /\ op.lines[1].parts[1] = <<"Q", "T", "D", "=">> \o IntText(Len(all_rows))
          /\ op.lines[Len(op.lines)].rec = "9999"
          /\ op.lines[Len(op.lines)].parts[1]
                = <<"L", "I", "N", "H", "A", "S", "=">> \o IntText(FileLines(op.lines))

\* C25: generate-installments and editor-apply change PARCELA, ACUMULADOR
\* and PARCELAS only of the rows they were applied to; every other row of
\* the batch keeps the three fields
C25_OnlyAppliedRowsChange ==
    [][op'.kind \in {"gera", "edit"}
          => \A id \in DOMAIN heap :
                id \notin SeqRange(op'.rows)
                   => /\ heap'[id].PARCELA = heap[id].PARCELA
                      /\ heap'[id].ACUMULADOR = heap[id].ACUMULADOR
                      /\ heap'[id].PARCELAS = heap[id].PARCELAS]_vars

\* C26: every row's displayed due date agrees with its installment list: a
\* row with a PARCELAS list shows the due date of its first installment as
\* PARCELA, and a row whose PARCELA is empty has no PARCELAS list
C26_ParcelaAgreesWithList ==
    \A id \in DOMAIN heap :
       /\ heap[id].PARCELAS # <<>> => heap[id].PARCELA = _v0_fmt(heap[id])
       /\ heap[id].PARCELA = <<>> => heap[id].PARCELAS = <<>>

\* C27: once typing has stopped and all lookups have finished, the station
\* shown is the one of the final user text (or none, if the lookup found
\* none), and so is the station returned with the payload when Entrar is
\* clicked then
C27_StationOfFinalText ==
    /\ StationQuiet
          => login.estacao \in {OrEmpty(EstacaoDe(login.last_user_text)), <<>>}
    /\ (login.st = "returned" /\ login.quiet)
          => login.payload.estacao \in {OrEmpty(EstacaoDe(login.payload.usuario)), <<>>}

\* every source of the input can be read
Readable(input) == \A k \in 1..Len(Inputs[input]) : Inputs[input][k].kind = "entry"

\* C28: when a second load was requested while the first was running, then
\* after both have completed, in either order, the panel's rows, visible
\* rows and counters are those of the input requested last, and each run's
\* rows are those of its own input
C28_LatestRequestWins ==
    /\ \A j \in 1..Len(jobs) :
          jobs[j].st \in {"running", "ok"} => jobs[j].rows = ExpectedRows(Yielded(jobs[j]))
    /\ (/\ Len(jobs) >= 2
        /\ doneQ = <<>>
        /\ \A j \in 1..Len(jobs) : jobs[j].st = "handled"
        /\ Readable(jobs[Len(jobs)].input))
          => /\ [k \in 1..Len(all_rows) |-> heap[all_rows[k]]]
                   = ExpectedRows(Inputs[jobs[Len(jobs)].input])
             /\ view_rows = all_rows
             /\ ui.tot = Len(Inputs[jobs[Len(jobs)].input])
             /\ ui.fail = Len(ExpectedErrors(Inputs[jobs[Len(jobs)].input]))
             /\ ui.ok = ui.tot - ui.fail

\* C29: at most one pool is ever created for a profile name, compared
\* without case, and every get_pool call for the profile returns that pool
C29_OnePoolPerProfile ==
    /\ \A prof \in DOMAIN registry.made : registry.made[prof] <= 1
    /\ \A g1 \in registry.got, g2 \in registry.got : g1[1] = g2[1] => g1[2] = g2[2]

\* C30: a call of listar_empresas that is not forced and finds a list cached
\* less than _TTL seconds before returns that list without a query; a call
\* that is forced, or finds no fresh list, queries the database; and a call
\* whose fetch fails returns the empty list and leaves the cached list as it
\* was.
C30_CacheServesFreshList ==
    cache.last.called =>
        /\ (~cache.last.force /\ cache.last.fresh) =>
              (cache.last.result = cache.last.before /\ ~cache.last.asked)
        /\ (cache.last.force \/ ~cache.last.fresh) => cache.last.asked
        /\ cache.last.failed =>
              (cache.last.result = <<>> /\ cache.data = cache.last.before)

====
